---- MODULE Spec2Model ----
(***************************************************************************)
(* Verification model of the SaaS exit calculator.                         *)
(*                                                                         *)
(*   - the Monte Carlo engine (src/src/simulation/monteCarlo.ts):          *)
(*     runSimulation, computeMaProceeds, computeIpoProceeds, percentile,   *)
(*     buildPolicy;                                                        *)
(*   - the simulation worker (src/src/workers/simulationWorker.ts);        *)
(*   - the App component that drives the worker (src/unnamed/part_001 and  *)
(*     the earlier revision embedded in src/src/simulation/random.ts).     *)
(*                                                                         *)
(* Numbers.  The program computes in floating point.  The model computes   *)
(* in integers: every rate (a fraction in the program) is carried as a     *)
(* numerator over Den, every percentile as a numerator over QDen, and the  *)
(* parameter space keeps money amounts divisible so that each product the  *)
(* program forms is exact here.  The pseudo-random samplers are modelled   *)
(* by the nondeterministic choice of their outcome (Samples).              *)
(***************************************************************************)
EXTENDS Integers, Sequences, FiniteSets, TLC

\* ------------------------------------------------------------------ bounds
\* horizon lengths explored: 0..MaxMonths
MaxMonths == 3
\* trial counts explored: 1..MaxTrials
MaxTrials == 2
\* escrowMonths, earnOutMonths, ipoLockupMonths: 0..MaxDelay
MaxDelay == 2
\* month iterations of one run: months * trials <= MaxSteps
MaxSteps == 6

\* ------------------------------------------------------- numeric encoding
\* rates are numerators over Den (1.25 = EarnOutCap / Den)
Den == 4
\* Math.min(growth / target, 1.25)
EarnOutCap == 5
\* quantiles q and percentile values are numerators over QDen
QDen == 10
\* yearAgoIndex = month - 12
TrailingMonths == 12
\* valuation = mrr * 12 * valuationMultiple; ARR = MRR * 12
MonthsPerYear == 12

Max(a, b) == IF a >= b THEN a ELSE b
Min(a, b) == IF a <= b THEN a ELSE b

RECURSIVE SumSeq(_)
SumSeq(s) == IF Len(s) = 0 THEN 0 ELSE Head(s) + SumSeq(Tail(s))

\* the amounts of the items of one category, summed
RECURSIVE SumType(_, _)
SumType(items, type) ==
  IF Len(items) = 0 THEN 0
  ELSE (IF Head(items).type = type THEN Head(items).amount ELSE 0)
       + SumType(Tail(items), type)

RECURSIVE SumAmounts(_)
SumAmounts(items) ==
  IF Len(items) = 0 THEN 0 ELSE Head(items).amount + SumAmounts(Tail(items))

\* x * (r / Den)
Scale(x, r) == (x * r) \div Den

\* ------------------------------------------------------------- percentile
\* Array.prototype.sort((a, b) => a - b): ascending insertion
RECURSIVE InsertAsc(_, _)
InsertAsc(x, s) ==
  IF Len(s) = 0 THEN <<x>>
  ELSE IF x <= Head(s) THEN <<x>> \o s
  ELSE <<Head(s)>> \o InsertAsc(x, Tail(s))

RECURSIVE SortAsc(_)
SortAsc(s) == IF Len(s) = 0 THEN <<>> ELSE InsertAsc(Head(s), SortAsc(Tail(s)))

\* const sorted = [...values].sort(...): the sort works on a copy, the
\* caller's array is what it was
PercentileNoSort(values) == [sorted |-> values, values |-> values]
PercentileSortInPlace(values) == [sorted |-> SortAsc(values), values |-> SortAsc(values)]
PercentileSortCopy(values) == [sorted |-> SortAsc(values), values |-> values]

\* sorted[base + 1] !== undefined (0-based base)
PercentileHasNext(sorted, base) == base + 1 < Len(sorted)

\* percentile(values, q) with q = qn / QDen; the value returned is a
\* numerator over QDen.  run.values is the caller's array after the call.
PercentileRun(values, qn) ==
  IF Len(values) = 0 THEN [out |-> 0, values |-> values]
  ELSE LET c == PercentileSortCopy(values)
           sorted == c.sorted
           posNum == (Len(sorted) - 1) * qn
           base == posNum \div QDen
           restNum == posNum % QDen
       IN [out |-> IF PercentileHasNext(sorted, base)
                   THEN sorted[base + 1] * QDen
                        + restNum * (sorted[base + 2] - sorted[base + 1])
                   ELSE sorted[base + 1] * QDen,
           values |-> c.values]

percentile(values, qn) == PercentileRun(values, qn).out

\* ---------------------------------------------------- proceeds calculators
Item(month, amount, type) == [month |-> month, amount |-> amount, type |-> type]

\* month: params.exitMonth - 1 + params.escrowMonths (earnOutMonths,
\* ipoLockupMonths)
DueIndexFromExitMonth(exitMonth, delay) == exitMonth + delay
DueIndex(exitMonth, delay) == exitMonth - 1 + delay

\* if (escrow > 0), if (earnOut > 0), if (lockup > 0): only a positive amount
\* is scheduled
EmitsItemAlways(amount) == TRUE
EmitsItem(amount) == amount > 0

\* const growthDenominator = yearAgoMrr <= 0 ? currentMrr : yearAgoMrr
GrowthDenominator(yearAgoMrr, currentMrr) ==
  IF yearAgoMrr <= 0 THEN currentMrr ELSE yearAgoMrr

\* computeMaProceeds(valuation, params, yearAgoMrr, currentMrr)
\* Math.max(0, Math.min(growth / params.earnOutGrowthTarget, 1.25))
ClampMultiplierUncapped(x) == Max(0, x)
ClampMultiplier(x) == Max(0, Min(x, EarnOutCap))

computeMaProceeds(valuation, p, yearAgoMrr, currentMrr) ==
  LET grossSale == valuation
      netAfterCosts == Max(0, Scale(grossSale, Den - p.transactionCostRate)
                              - Scale(grossSale, p.workingCapitalRate))
      escrow == Scale(netAfterCosts, p.escrowRate)
      baseEarnOut == Scale(netAfterCosts, p.earnOutRate)
      immediate == Max(netAfterCosts - escrow - baseEarnOut, 0)
      growthDenominator == GrowthDenominator(yearAgoMrr, currentMrr)
      \* growth / earnOutGrowthTarget as a numerator over Den (rounded down)
      growthOverTarget ==
        IF growthDenominator = 0 THEN 0
        ELSE ((currentMrr - growthDenominator) * Den * Den)
             \div (growthDenominator * p.earnOutGrowthTarget)
      earnOutMultiplier ==
        IF p.earnOutGrowthTarget <= 0 THEN Den
        ELSE ClampMultiplier(growthOverTarget)
      earnOut == Scale(baseEarnOut, earnOutMultiplier)
      s1 == IF EmitsItem(escrow)
            THEN <<Item(DueIndex(p.exitMonth, p.escrowMonths), escrow, "escrow")>>
            ELSE <<>>
      s2 == IF EmitsItem(earnOut)
            THEN <<Item(DueIndex(p.exitMonth, p.earnOutMonths), earnOut, "earnOut")>>
            ELSE <<>>
  IN [immediate |-> immediate, scheduled |-> s1 \o s2]

\* computeIpoProceeds(valuation, params)
computeIpoProceeds(valuation, p) ==
  LET discountedValuation == Scale(valuation, Den - p.ipoDiscount)
      floatGross == Scale(discountedValuation, p.ipoFloatPercent)
      immediate == Scale(floatGross, Den - p.ipoFeesRate)
      remainingEquity == Max(discountedValuation - floatGross, 0)
      lockup == Scale(Scale(remainingEquity, p.postLockupSellDown), Den - p.ipoFeesRate)
      s1 == IF EmitsItem(lockup)
            THEN <<Item(DueIndex(p.exitMonth, p.ipoLockupMonths), lockup, "lockup")>>
            ELSE <<>>
  IN [immediate |-> immediate, scheduled |-> s1]

\* ------------------------------------------------------------ buildPolicy
\* achievedMonth = hit ? hit.month : null.  Months are numbered from 1, so 0
\* stands for null; an absent milestone (nextMilestone ?? null) is <<>> and a
\* present one <<milestone>>.
NoMonth == 0

\* valuationSeries.find((point) => point.median >= target); medians are
\* numerators over QDen
RECURSIVE FindHit(_, _)
FindHit(series, target) ==
  IF Len(series) = 0 THEN NoMonth
  ELSE IF Head(series).median >= target * QDen THEN Head(series).month
  ELSE FindHit(Tail(series), target)

\* Math.max(1, Math.round(((index + 1) / (N + 1)) * months)), index 0-based
ExpectedMonth(index, n, months) ==
  Max(1, (2 * (index + 1) * months + (n + 1)) \div (2 * (n + 1)))

PolicyStatusOf(achievedMonth, expectedMonth, policyBand) ==
  IF achievedMonth = NoMonth THEN "missed"
  ELSE IF achievedMonth * Den <= expectedMonth * (Den - policyBand) THEN "ahead"
  ELSE IF achievedMonth * Den <= expectedMonth * (Den + policyBand) THEN "on_track"
  ELSE "behind"

\* milestoneTargets.map((target, index) => ...): one milestone per target,
\* in the order of the input
PolicyMilestones(p, valuationSeries) ==
  [i \in 1..Len(p.milestoneTargets) |->
     LET target == p.milestoneTargets[i]
         achievedMonth == FindHit(valuationSeries, target)
         expectedMonth == ExpectedMonth(i - 1, Len(p.milestoneTargets), p.months)
     IN [target |-> target, achievedMonth |-> achievedMonth,
         expectedMonth |-> expectedMonth,
         status |-> PolicyStatusOf(achievedMonth, expectedMonth, p.policyBand)]]

\* milestones.find((milestone) => milestone.achievedMonth === null)
FirstUnachievedNone(milestones) == <<>>
RECURSIVE FirstUnachieved(_)
FirstUnachieved(milestones) ==
  IF Len(milestones) = 0 THEN <<>>
  ELSE IF Head(milestones).achievedMonth = NoMonth THEN <<Head(milestones)>>
  ELSE FirstUnachieved(Tail(milestones))

PolicyNote(m) ==
  IF m.achievedMonth # NoMonth
  THEN [kind |-> "reached", target |-> m.target, month |-> m.achievedMonth, status |-> m.status]
  ELSE [kind |-> "not_reached", target |-> m.target, month |-> m.expectedMonth, status |-> m.status]

buildPolicy(p, valuationSeries) ==
  LET idx == Max(0, p.exitMonth - 1)
      exitValuation == IF idx < Len(valuationSeries) THEN valuationSeries[idx + 1].median ELSE 0
      milestones == PolicyMilestones(p, valuationSeries)
      nextMilestone == FirstUnachieved(milestones)
      recommendedAction ==
        IF nextMilestone = <<>> THEN "SELL"
        ELSE IF exitValuation * Den >= nextMilestone[1].target * (Den - p.policyBand) * QDen
             THEN "PREPARE"
        ELSE "HOLD"
  IN [recommendedAction |-> recommendedAction,
      policyBand |-> p.policyBand,
      exitValuation |-> exitValuation,
      nextMilestone |-> nextMilestone,
      milestones |-> milestones,
      notes |-> <<[kind |-> "exit", target |-> exitValuation, month |-> p.exitMonth,
                   status |-> "exit"]>>
                \o [i \in 1..Len(milestones) |-> PolicyNote(milestones[i])]]

\* ----------------------------------------------------- buildUnitEconomics
\* a quotient num / den kept as the pair.  As in floating point, x / 0 is
\* +Infinity for x > 0, -Infinity for x < 0 and NaN for x = 0.
Quot(num, den) == [num |-> num, den |-> den]
Infinity == Quot(1, 0)
\* expectedChurn > 0 (false for NaN)
QuotNotNegative(x) == x.num * x.den >= 0
QuotPositive(x) == x.num * x.den > 0 \/ (x.den = 0 /\ x.num > 0)

buildUnitEconomics(p) ==
  LET expectedChurn == Quot(p.churnAlpha, p.churnAlpha + p.churnBeta)
      \* arpu * grossMargin as a numerator over Den
      grossMarginRevenue == p.arpu * p.grossMargin
      ltv == IF QuotPositive(expectedChurn)
             THEN Quot(grossMarginRevenue * expectedChurn.den, Den * expectedChurn.num)
             ELSE Infinity
      cac == p.customerAcquisitionCost
      ltvToCac == IF cac > 0 THEN Quot(ltv.num, ltv.den * cac) ELSE Infinity
      cacPaybackMonths == IF grossMarginRevenue > 0
                          THEN Quot(cac * Den, grossMarginRevenue)
                          ELSE Infinity
  IN [expectedChurn |-> expectedChurn, ltv |-> ltv, cac |-> cac,
      ltvToCac |-> ltvToCac, cacPaybackMonths |-> cacPaybackMonths]

\* =================================================================== state
VARIABLES
  \* ---- runSimulation (monteCarlo.ts)
  params,              \* the SimulationParameters of the run
  pc,                  \* position of the run: "idle", "trialInit", "month", "done"
  trial, month,        \* loop counters (0-based, as in the code)
  rng,                 \* the trial's generator: the trial index of its seed, and
                       \* the outcomes of the draws made from it so far
  customers, mrr, treasury, proceedsReceived,
  scheduled,           \* Record<number, ScheduledProceeds[]>: month key -> items
  immediate, escrowTotal, earnOutTotal, lockupTotal,
  futureEscrow, futureEarnOut, futureLockup,
  mrrPaths, valuationPaths, treasuryPaths, liquidCashPaths,
  immediateProceeds, escrowProceeds, earnOutProceeds, lockupProceeds, totalProceeds,
  simResult,           \* <<>> until runSimulation returns, then <<SimulationResult>>
  \* ---- history of the current trial (not program state)
  saleResult,          \* <<>> or <<what the proceeds calculator returned>>
  appliedLog,          \* the schedule items applied so far, each with the month index
  saleCalls,           \* the calls of the proceeds calculator: month and arguments
  \* ---- App component and simulation worker
  revision,            \* which App source is built: "form" (part_001) or "direct" (random.ts)
  mounted,             \* the effects of the first render have run
  formParameters, parameters, activePreset, result, isRunning, hasPendingChanges,
  requestIdRef,
  toWorker,            \* messages posted to the worker, not yet handled (FIFO)
  toApp,               \* responses posted by the worker, not yet handled (FIFO)
  \* ---- history of the App (not program state)
  posted,              \* the requestId of every request posted, in order
  lastHandled,         \* the requestId of the last response handleMessage received
  edits,               \* number of updateParameters calls so far
  removeIgnored,       \* removeMilestone has returned early at least once
  \* ---- settings files
  exportFile,          \* <<>> or <<the text of the file handleExport downloaded last>>
  exportedParams,      \* history: <<>> or <<the parameters that file was written from>>
  importLog,           \* history: every file handleImport has parsed, with the
                       \* parameters shown before it was read
  malformedRead,       \* history: handleImport has read a file that is not JSON
  errorReported,       \* console.error('Invalid settings file', ...) was called
  \* ---- calls of the pure functions on drawn inputs
  policyIn,            \* [params, valuationSeries] handed to buildPolicy
  policyOut,           \* <<>> or <<the PolicyResult returned>>
  pctValues, pctQ,     \* the array and the quantile handed to percentile
  pctOut,              \* <<>> or <<the value returned>>
  unitIn,              \* the parameters handed to buildUnitEconomics
  unitOut,             \* <<>> or <<the UnitEconomics returned>>
  \* ---- one call of sampleBeta (random.ts)
  betaIn,              \* [alpha, beta], in thirds
  betaPc,              \* "x": sampling the first gamma, "y": the second, "done"
  gShape,              \* the shape of the sampleGamma call running, in thirds
  gScales,             \* the factors u^(1/shape) of the callers waiting for it
  gFirst,              \* <<>> or <<the value of x>>
  betaOut,             \* <<>> or <<the value returned>>
  \* ---- history of the call (not program state)
  candidate,           \* <<>> or <<the last x, its v and what the loop did with it>>
  returnedV,           \* the v of every candidate a loop returned
  \* ---- one SliderInput (SliderInput.tsx)
  sliderProps,         \* [min, max, step, value] of the component
  onChangeCalls        \* history: the calls of onChange: input, entry, value passed

trialVars == <<rng, customers, mrr, treasury, proceedsReceived, scheduled, immediate,
               escrowTotal, earnOutTotal, lockupTotal,
               futureEscrow, futureEarnOut, futureLockup, saleResult, appliedLog,
               saleCalls>>
pathVars == <<mrrPaths, valuationPaths, treasuryPaths, liquidCashPaths>>
listVars == <<immediateProceeds, escrowProceeds, earnOutProceeds, lockupProceeds,
              totalProceeds>>
engineVars == <<params, pc, trial, month, trialVars, pathVars, listVars, simResult>>

fileVars == <<exportFile, exportedParams, importLog, malformedRead, errorReported>>

appVars == <<revision, mounted, formParameters, parameters, activePreset, result,
            isRunning, hasPendingChanges, requestIdRef, toWorker, toApp,
            posted, lastHandled, edits, removeIgnored, fileVars>>

unitVars == <<unitIn, unitOut>>

betaVars == <<betaIn, betaPc, gShape, gScales, gFirst, betaOut, candidate, returnedV>>

sliderVars == <<sliderProps, onChangeCalls>>

callVars == <<policyIn, policyOut, pctValues, pctQ, pctOut, unitVars, betaVars, sliderVars>>

vars == <<engineVars, appVars, callVars>>

\* -------------------------------------------------------- parameter space
\* Fields of SimulationParameters.  Rates are numerators over Den.
BaseParameters ==
  [months |-> 1, trials |-> 1, initialMrr |-> 1024, arpu |-> 64,
   churnAlpha |-> 1, churnBeta |-> 3,
   valuationMultiple |-> 1, profitTakeRate |-> 2, grossMargin |-> 2,
   exitStrategy |-> "ma", exitMonth |-> 1,
   escrowRate |-> 0, escrowMonths |-> 0,
   earnOutRate |-> 0, earnOutMonths |-> 0, earnOutGrowthTarget |-> 0,
   transactionCostRate |-> 1, workingCapitalRate |-> 1,
   ipoFloatPercent |-> 1, ipoDiscount |-> 1, ipoFeesRate |-> 1,
   ipoLockupMonths |-> 0, postLockupSellDown |-> 0,
   policyBand |-> 1, milestoneTargets |-> <<12288, 49152>>,
   customerAcquisitionCost |-> 64]

Horizons == {h \in [months : 0..MaxMonths, exitMonth : 0..MaxMonths, trials : 1..MaxTrials,
                    profitTakeRate : {0, 2}] :
               h.exitMonth <= h.months /\ h.months * h.trials <= MaxSteps}

\* deal terms; the delay (and growth target) of a part whose rate is 0 has no
\* effect and is left at 0
MaTerms == {t \in [escrowRate : {0, 1}, escrowMonths : 0..MaxDelay,
                   earnOutRate : {0, 1}, earnOutMonths : 0..MaxDelay,
                   earnOutGrowthTarget : {0, 2}] :
              /\ t.escrowRate = 0 => t.escrowMonths = 0
              /\ t.earnOutRate = 0 => (t.earnOutMonths = 0 /\ t.earnOutGrowthTarget = 0)}

IpoTerms == {t \in [ipoLockupMonths : 0..MaxDelay, postLockupSellDown : {0, 2}] :
               t.postLockupSellDown = 0 => t.ipoLockupMonths = 0}

WithHorizon(p, h) ==
  [p EXCEPT !.months = h.months, !.exitMonth = h.exitMonth, !.trials = h.trials,
            !.profitTakeRate = h.profitTakeRate]

EngineParameters ==
  {[WithHorizon(BaseParameters, h) EXCEPT
      !.exitStrategy = "ma",
      !.ipoLockupMonths = 1, !.postLockupSellDown = 2,
      !.escrowRate = t.escrowRate, !.escrowMonths = t.escrowMonths,
      !.earnOutRate = t.earnOutRate, !.earnOutMonths = t.earnOutMonths,
      !.earnOutGrowthTarget = t.earnOutGrowthTarget] : h \in Horizons, t \in MaTerms}
  \cup
  {[WithHorizon(BaseParameters, h) EXCEPT
      !.exitStrategy = "ipo",
      !.escrowRate = 1, !.escrowMonths = 1, !.earnOutRate = 1, !.earnOutMonths = 1,
      !.ipoLockupMonths = t.ipoLockupMonths,
      !.postLockupSellDown = t.postLockupSellDown] : h \in Horizons, t \in IpoTerms}

\* The outcomes of one month's draws: growthFactor = sampleLogNormal(...),
\* churnRate = sampleBeta(...), both numerators over Den.
\* Two outcomes are explored: customers double (no churn) and customers halve.
Samples == {[growthFactor |-> 2 * Den, churnRate |-> 0],
            [growthFactor |-> Den, churnRate |-> Den \div 2]}

\* new Array(months).fill(0), one row per trial
ZeroPaths(p) == [t \in 1..p.trials |-> [m \in 1..p.months |-> 0]]

\* ------------------------------------------------------------ runSimulation
\* createRng(`${seed}-${trial}`): a generator of its own for the trial
createRng(t) == [trial |-> t, draws |-> <<>>]

EngineIdle ==
  /\ params = BaseParameters
  /\ pc = "idle"
  /\ trial = 0 /\ month = 0
  /\ rng = createRng(0)
  /\ customers = 0 /\ mrr = 0 /\ treasury = 0 /\ proceedsReceived = 0
  /\ scheduled = <<>>
  /\ immediate = 0 /\ escrowTotal = 0 /\ earnOutTotal = 0 /\ lockupTotal = 0
  /\ futureEscrow = 0 /\ futureEarnOut = 0 /\ futureLockup = 0
  /\ mrrPaths = <<>> /\ valuationPaths = <<>>
  /\ treasuryPaths = <<>> /\ liquidCashPaths = <<>>
  /\ immediateProceeds = <<>> /\ escrowProceeds = <<>> /\ earnOutProceeds = <<>>
  /\ lockupProceeds = <<>> /\ totalProceeds = <<>>
  /\ simResult = <<>>
  /\ saleResult = <<>> /\ appliedLog = <<>> /\ saleCalls = <<>>

\* runSimulation(params) up to the trial loop: the paths are allocated and
\* the proceeds lists are empty.  No parameter is inspected.
EngineStart(parameters0) ==
  /\ params \in parameters0
  /\ pc = "trialInit"
  /\ trial = 0 /\ month = 0
  /\ rng = createRng(0)
  /\ customers = 0 /\ mrr = 0 /\ treasury = 0 /\ proceedsReceived = 0
  /\ scheduled = <<>>
  /\ immediate = 0 /\ escrowTotal = 0 /\ earnOutTotal = 0 /\ lockupTotal = 0
  /\ futureEscrow = 0 /\ futureEarnOut = 0 /\ futureLockup = 0
  /\ mrrPaths = ZeroPaths(params) /\ valuationPaths = ZeroPaths(params)
  /\ treasuryPaths = ZeroPaths(params) /\ liquidCashPaths = ZeroPaths(params)
  /\ immediateProceeds = <<>> /\ escrowProceeds = <<>> /\ earnOutProceeds = <<>>
  /\ lockupProceeds = <<>> /\ totalProceeds = <<>>
  /\ simResult = <<>>
  /\ saleResult = <<>> /\ appliedLog = <<>> /\ saleCalls = <<>>

EngineInit == EngineStart(EngineParameters)

\* treasury += grossProfit * profitTakeRate
SetProfitTake(treasury0, take) == take
AddProfitTake(treasury0, take) == treasury0 + take

\* initialMrr / Math.max(arpu, 1e-6)
InitialCustomers(initialMrr, arpu) ==
  IF arpu >= 1 THEN initialMrr \div arpu ELSE initialMrr * 1000000

\* for (let trial = 0; trial < trials; trial++) { ... fresh trial state
BeginTrialCustomersShared ==
  /\ pc = "trialInit"
  /\ trial < params.trials
  /\ rng' = createRng(trial)
  /\ customers' = IF trial = 0
                  THEN Max(InitialCustomers(params.initialMrr, params.arpu), 1)
                  ELSE customers
  /\ mrr' = params.initialMrr
  /\ treasury' = 0
  /\ proceedsReceived' = 0
  /\ scheduled' = <<>>
  /\ immediate' = 0 /\ escrowTotal' = 0 /\ earnOutTotal' = 0 /\ lockupTotal' = 0
  /\ futureEscrow' = 0 /\ futureEarnOut' = 0 /\ futureLockup' = 0
  /\ saleResult' = <<>> /\ appliedLog' = <<>> /\ saleCalls' = <<>>
  /\ month' = 0
  /\ pc' = "month"
  /\ UNCHANGED <<params, trial, pathVars, listVars, simResult, appVars, callVars>>
BeginTrial ==
  /\ pc = "trialInit"
  /\ trial < params.trials
  /\ rng' = createRng(trial)
  /\ customers' = Max(InitialCustomers(params.initialMrr, params.arpu), 1)
  /\ mrr' = params.initialMrr
  /\ treasury' = 0
  /\ proceedsReceived' = 0
  /\ scheduled' = <<>>
  /\ immediate' = 0 /\ escrowTotal' = 0 /\ earnOutTotal' = 0 /\ lockupTotal' = 0
  /\ futureEscrow' = 0 /\ futureEarnOut' = 0 /\ futureLockup' = 0
  /\ saleResult' = <<>> /\ appliedLog' = <<>> /\ saleCalls' = <<>>
  /\ month' = 0
  /\ pc' = "month"
  /\ UNCHANGED <<params, trial, pathVars, listVars, simResult, appVars, callVars>>

\* if (item.month < months): the item is due inside the horizon
WithinHorizonInclusive(item, months) == item.month <= months
WithinHorizon(item, months) == item.month < months

\* scheduled[item.month].push(item), creating the list when absent
PushScheduled(sched, item) ==
  IF item.month \in DOMAIN sched
  THEN [sched EXCEPT ![item.month] = Append(@, item)]
  ELSE (item.month :> <<item>>) @@ sched

\* for (const item of saleResult.scheduled) { ... }: acc carries scheduled
\* and the three future totals
RECURSIVE RouteItems(_, _, _)
RouteItems(items, months, acc) ==
  IF Len(items) = 0 THEN acc
  ELSE LET item == Head(items)
           next ==
             IF WithinHorizon(item, months)
             THEN [acc EXCEPT !.scheduled = PushScheduled(acc.scheduled, item)]
             ELSE IF item.type = "escrow"
                  THEN [acc EXCEPT !.futureEscrow = @ + item.amount]
             ELSE IF item.type = "earnOut"
                  THEN [acc EXCEPT !.futureEarnOut = @ + item.amount]
             ELSE [acc EXCEPT !.futureLockup = @ + item.amount]
       IN RouteItems(Tail(items), months, next)

\* delete scheduled[month]
DeleteKey(sched, k) == [j \in (DOMAIN sched) \ {k} |-> sched[j]]

\* yearAgoIndex >= 0 ? mrrPaths[trial][yearAgoIndex] : initialMrr
YearAgoMrrFirstTrial(paths, t, m, initialMrr) ==
  LET yearAgoIndex == m - TrailingMonths
  IN IF yearAgoIndex >= 0 THEN paths[1][yearAgoIndex + 1] ELSE initialMrr
YearAgoMrrOrZero(paths, t, m, initialMrr) ==
  LET yearAgoIndex == m - TrailingMonths
  IN IF yearAgoIndex >= 0 THEN paths[t + 1][yearAgoIndex + 1] ELSE 0
YearAgoMrr(paths, t, m, initialMrr) ==
  LET yearAgoIndex == m - TrailingMonths
  IN IF yearAgoIndex >= 0 THEN paths[t + 1][yearAgoIndex + 1] ELSE initialMrr

\* if (monthIndex === params.exitMonth)
IsExitMonthOrLater(monthIndex, exitMonth) == monthIndex >= exitMonth
IsExitMonth(monthIndex, exitMonth) == monthIndex = exitMonth

\* One iteration of the month loop of the current trial; s is the outcome of
\* this month's draws.
MonthStep(s) ==
  /\ pc = "month"
  /\ month < params.months
  /\ LET monthIndex == month + 1
         due == IF month \in DOMAIN scheduled THEN scheduled[month] ELSE <<>>
         proceedsThisMonth == SumAmounts(due)
         scheduled1 == IF Len(due) > 0 THEN DeleteKey(scheduled, month) ELSE scheduled
         survivingCustomers == Scale(customers, Den - s.churnRate)
         expandedCustomers == Scale(survivingCustomers, s.growthFactor - Den)
         customers1 == Max(survivingCustomers + expandedCustomers, 0)
         mrr1 == customers1 * params.arpu
         grossProfit == Scale(mrr1, params.grossMargin)
         treasury1 == AddProfitTake(treasury, Scale(grossProfit, params.profitTakeRate))
         received1 == proceedsReceived + proceedsThisMonth
         valuation == mrr1 * MonthsPerYear * params.valuationMultiple
         exits == IsExitMonth(monthIndex, params.exitMonth)
         yearAgoMrr == YearAgoMrr(mrrPaths, trial, month, params.initialMrr)
         sale == IF params.exitStrategy = "ma"
                 THEN computeMaProceeds(valuation, params, yearAgoMrr, mrr1)
                 ELSE computeIpoProceeds(valuation, params)
         received2 == IF exits /\ sale.immediate > 0
                      THEN received1 + sale.immediate ELSE received1
         routed == IF exits
                   THEN RouteItems(sale.scheduled, params.months,
                          [scheduled |-> scheduled1, futureEscrow |-> futureEscrow,
                           futureEarnOut |-> futureEarnOut, futureLockup |-> futureLockup])
                   ELSE [scheduled |-> scheduled1, futureEscrow |-> futureEscrow,
                         futureEarnOut |-> futureEarnOut, futureLockup |-> futureLockup]
     IN /\ escrowTotal' = escrowTotal + SumType(due, "escrow")
        /\ earnOutTotal' = earnOutTotal + SumType(due, "earnOut")
        /\ lockupTotal' = lockupTotal + SumType(due, "lockup")
        /\ appliedLog' = appliedLog \o [i \in 1..Len(due) |-> [item |-> due[i], at |-> month]]
        /\ rng' = [rng EXCEPT !.draws = Append(@, s)]
        /\ customers' = customers1
        /\ mrr' = mrr1
        /\ treasury' = treasury1
        /\ proceedsReceived' = received2
        /\ immediate' = IF exits THEN sale.immediate ELSE immediate
        /\ saleResult' = IF exits THEN <<sale>> ELSE saleResult
        /\ saleCalls' = IF exits
                        THEN Append(saleCalls, [month |-> monthIndex, valuation |-> valuation,
                                                yearAgoMrr |-> yearAgoMrr, currentMrr |-> mrr1])
                        ELSE saleCalls
        /\ scheduled' = routed.scheduled
        /\ futureEscrow' = routed.futureEscrow
        /\ futureEarnOut' = routed.futureEarnOut
        /\ futureLockup' = routed.futureLockup
        /\ mrrPaths' = [mrrPaths EXCEPT ![trial + 1][month + 1] = mrr1]
        /\ valuationPaths' = [valuationPaths EXCEPT ![trial + 1][month + 1] = valuation]
        /\ treasuryPaths' = [treasuryPaths EXCEPT ![trial + 1][month + 1] = treasury1]
        /\ liquidCashPaths' =
             [liquidCashPaths EXCEPT ![trial + 1][month + 1] = treasury1 + received2]
  /\ month' = month + 1
  /\ UNCHANGED <<params, pc, trial, listVars, simResult, appVars, callVars>>

\* if (futureEscrow + futureEarnOut + futureLockup > 0)
FoldsFutureNever(future) == FALSE
FoldsFuture(future) == future > 0

\* After the month loop: amounts due beyond the horizon are added to the
\* last month's liquid cash, and the trial's totals are pushed.
EndTrial ==
  /\ pc = "month"
  /\ month = params.months
  /\ LET finalIndex == params.months - 1
         future == futureEscrow + futureEarnOut + futureLockup
         totalEscrow == escrowTotal + futureEscrow
         totalEarnOut == earnOutTotal + futureEarnOut
         totalLockup == lockupTotal + futureLockup
         total == immediate + totalEscrow + totalEarnOut + totalLockup
     IN /\ liquidCashPaths' =
             IF FoldsFuture(future) /\ finalIndex >= 0
             THEN [liquidCashPaths EXCEPT ![trial + 1][finalIndex + 1] = @ + future]
             ELSE liquidCashPaths
        /\ immediateProceeds' = Append(immediateProceeds, immediate)
        /\ escrowProceeds' = Append(escrowProceeds, totalEscrow)
        /\ earnOutProceeds' = Append(earnOutProceeds, totalEarnOut)
        /\ lockupProceeds' = Append(lockupProceeds, totalLockup)
        /\ totalProceeds' = Append(totalProceeds, total)
  /\ trial' = trial + 1
  /\ pc' = "trialInit"
  /\ UNCHANGED <<params, month, trialVars, mrrPaths, valuationPaths, treasuryPaths,
                 simResult, appVars, callVars>>

\* paths.map((trial) => trial[month]), month 0-based
Slice(paths, m) == [t \in 1..Len(paths) |-> paths[t][m + 1]]

buildSeries(paths, months) ==
  [i \in 1..months |->
     [month |-> i,
      median |-> percentile(Slice(paths, i - 1), 5),
      p10 |-> percentile(Slice(paths, i - 1), 1),
      p90 |-> percentile(Slice(paths, i - 1), 9)]]

arrSeriesOf(mrrSeries) ==
  [i \in 1..Len(mrrSeries) |->
     [month |-> mrrSeries[i].month,
      median |-> mrrSeries[i].median * MonthsPerYear,
      p10 |-> mrrSeries[i].p10 * MonthsPerYear,
      p90 |-> mrrSeries[i].p90 * MonthsPerYear]]

\* the months that get a summary row: every 12th and the last
RECURSIVE SummaryMonths(_, _)
SummaryMonths(m, months) ==
  IF m > months THEN <<>>
  ELSE (IF m % MonthsPerYear = 0 \/ m = months THEN <<m>> ELSE <<>>)
       \o SummaryMonths(m + 1, months)

makeProceedsStat(values) ==
  [median |-> percentile(values, 5), p10 |-> percentile(values, 1),
   p90 |-> percentile(values, 9)]

\* The rest of runSimulation once the trial loop is over: series, summary,
\* sale summary, policy and unit economics are assembled and returned.
Aggregate ==
  /\ pc = "trialInit"
  /\ trial >= params.trials
  /\ LET mrrSeries == buildSeries(mrrPaths, params.months)
         valuationSeries == buildSeries(valuationPaths, params.months)
         treasurySeries == buildSeries(treasuryPaths, params.months)
         liquidCashSeries == buildSeries(liquidCashPaths, params.months)
         arrSeries == arrSeriesOf(mrrSeries)
         rows == SummaryMonths(1, params.months)
     IN simResult' =
          <<[mrr |-> mrrSeries, arr |-> arrSeries, valuation |-> valuationSeries,
             treasury |-> treasurySeries, liquidCash |-> liquidCashSeries,
             summary |-> [i \in 1..Len(rows) |->
                            [month |-> rows[i],
                             medianArr |-> arrSeries[rows[i]].median,
                             medianValuation |-> valuationSeries[rows[i]].median,
                             medianTreasury |-> treasurySeries[rows[i]].median,
                             medianLiquidCash |-> liquidCashSeries[rows[i]].median]],
             saleSummary |->
               [strategy |-> params.exitStrategy, exitMonth |-> params.exitMonth,
                immediate |-> makeProceedsStat(immediateProceeds),
                escrow |-> makeProceedsStat(escrowProceeds),
                earnOut |-> makeProceedsStat(earnOutProceeds),
                postLockup |-> makeProceedsStat(lockupProceeds),
                total |-> makeProceedsStat(totalProceeds)],
             policy |-> buildPolicy(params, valuationSeries),
             unitEconomics |-> buildUnitEconomics(params)]>>
  /\ pc' = "done"
  /\ UNCHANGED <<params, trial, month, trialVars, pathVars, listVars, appVars, callVars>>

EngineNext ==
  \/ BeginTrial
  \/ \E s \in Samples : MonthStep(s)
  \/ EndTrial
  \/ Aggregate

\* ------------------------------------- runs longer than the trailing year
\* horizons explored: TrailingMonths + 1 .. TrailingMonths + MaxBeyondYear
MaxBeyondYear == 2
\* months of a trial whose draws are explored; later months draw no change
MaxFreeDraws == 2

LongHorizons ==
  {h \in [months : (TrailingMonths + 1)..(TrailingMonths + MaxBeyondYear),
          exitMonth : TrailingMonths..(TrailingMonths + MaxBeyondYear),
          trials : 1..MaxTrials, profitTakeRate : {2}] : h.exitMonth <= h.months}

\* M&A runs with an earn-out that depends on the growth over the year
LongParameters ==
  {[WithHorizon(BaseParameters, h) EXCEPT
      !.earnOutRate = 1, !.earnOutMonths = 1, !.earnOutGrowthTarget = 2] :
     h \in LongHorizons}

\* the outcomes explored for the draws of month index m (0-based)
LongSamples(m) ==
  IF m < MaxFreeDraws THEN Samples ELSE {[growthFactor |-> Den, churnRate |-> 0]}

LongInit == EngineStart(LongParameters)

LongNext ==
  \/ BeginTrial
  \/ \E s \in LongSamples(month) : MonthStep(s)
  \/ EndTrial
  \/ Aggregate

\* ------------------------------------------------ calls on drawn inputs
\* horizon of the series handed to buildPolicy
MaxPolicyMonths == 2
\* number of milestone targets handed to buildPolicy
MaxTargets == 2
\* valuations and targets handed to buildPolicy: 0..MaxLevel
MaxLevel == 2
\* length of the array handed to percentile
MaxLen == 3
\* values of the array handed to percentile: 0..MaxVal
MaxVal == 2

\* a valuation series of Len(m) points numbered from 1, as buildSeries makes
\* it, with the medians m (numerators over QDen after scaling)
PolicySeries(m) ==
  [i \in 1..Len(m) |-> [month |-> i, median |-> m[i] * QDen,
                        p10 |-> m[i] * QDen, p90 |-> m[i] * QDen]]

\* policyBand values handed to buildPolicy: 0 and 1/2
PolicyBands == {0, Den \div 2}

PolicyIdle ==
  /\ policyIn = [params |-> BaseParameters, valuationSeries |-> <<>>]
  /\ policyOut = <<>>

PercentileIdle == pctValues = <<>> /\ pctQ = 0 /\ pctOut = <<>>

UnitIdle == unitIn = BaseParameters /\ unitOut = <<>>

BetaIdle ==
  /\ betaIn = [alpha |-> 4, beta |-> 4]
  /\ betaPc = "done"
  /\ gShape = 4 /\ gScales = <<>> /\ gFirst = <<>> /\ betaOut = <<>>
  /\ candidate = <<>> /\ returnedV = <<>>

SliderIdle ==
  /\ sliderProps = [min |-> 0, max |-> 0, step |-> 1, value |-> 0]
  /\ onChangeCalls = <<>>

CallsIdle == PolicyIdle /\ PercentileIdle /\ UnitIdle /\ BetaIdle /\ SliderIdle

\* the inputs of one buildPolicy call: any horizon, exit month, band,
\* milestone targets in any order, and any medians
PolicyInit ==
  /\ \E mo \in 1..MaxPolicyMonths :
       \E e \in 0..mo, b \in PolicyBands, n \in 0..MaxTargets :
         \E ts \in [1..n -> 1..MaxLevel], m \in [1..mo -> 0..MaxLevel] :
           policyIn = [params |-> [BaseParameters EXCEPT !.months = mo, !.exitMonth = e,
                                                         !.policyBand = b,
                                                         !.milestoneTargets = ts],
                       valuationSeries |-> PolicySeries(m)]
  /\ policyOut = <<>>

\* const policy = buildPolicy(params, valuationSeries)
BuildPolicyCall ==
  /\ policyOut = <<>>
  /\ policyOut' = <<buildPolicy(policyIn.params, policyIn.valuationSeries)>>
  /\ UNCHANGED <<policyIn, pctValues, pctQ, pctOut, unitVars, betaVars, sliderVars,
                 engineVars, appVars>>

PolicyNext == BuildPolicyCall

PercentileInit ==
  /\ \E n \in 0..MaxLen : pctValues \in [1..n -> 0..MaxVal]
  /\ pctQ \in 0..QDen
  /\ pctOut = <<>>

\* percentile(values, q): the caller's array after the call, and the value
PercentileCall ==
  /\ pctOut = <<>>
  /\ LET run == PercentileRun(pctValues, pctQ)
     IN pctValues' = run.values /\ pctOut' = <<run.out>>
  /\ UNCHANGED <<pctQ, policyIn, policyOut, unitVars, betaVars, sliderVars, engineVars,
                 appVars>>

PercentileNext == PercentileCall

\* churnAlpha and churnBeta handed to buildUnitEconomics: -MaxShape..MaxShape
MaxShape == 2

\* the inputs of one buildUnitEconomics call, degenerate ones included
UnitInit ==
  /\ \E a \in -MaxShape..MaxShape, b \in -MaxShape..MaxShape :
       \E arpu \in {0, 64}, gm \in {0, 2}, cac \in {0, 64} :
         unitIn = [BaseParameters EXCEPT !.churnAlpha = a, !.churnBeta = b,
                                         !.arpu = arpu, !.grossMargin = gm,
                                         !.customerAcquisitionCost = cac]
  /\ unitOut = <<>>

\* const unitEconomics = buildUnitEconomics(params)
BuildUnitEconomicsCall ==
  /\ unitOut = <<>>
  /\ unitOut' = <<buildUnitEconomics(unitIn)>>
  /\ UNCHANGED <<unitIn, policyIn, policyOut, pctValues, pctQ, pctOut, betaVars,
                 sliderVars, engineVars, appVars>>

UnitNext == BuildUnitEconomicsCall

\* ------------------------------------------------------------- sampleBeta
\* Shapes are counted in thirds and uniform draws in quarters.  The shapes
\* explored are 1/3 (below 1), 4/3 and 13/3: for the last two 9 * d is a
\* square (9 and 36), so c = 1 / Math.sqrt(9 * d) is 1/3 and 1/6.
ShapeDen == 3
UDen == 4
Shapes == {1, 4, 13}
\* rng(): uniform on [0, 1), 0 included
Uniforms == {0, 2, 3}
\* sampleStandardNormal(rng)
Normals == {-6, -3, 0, 3}

Cube(n) == n * n * n

\* const d = shape - 1 / 3
ShapeD(shape) == Quot(shape - 1, ShapeDen)
\* 1 / c, with c = 1 / Math.sqrt(9 * d)
OneOverC(shape) == CHOOSE k \in 1..shape : k * k = 3 * (shape - 1)
\* const v = Math.pow(1 + c * x, 3)
CandidateV(shape, x) == Quot(Cube(OneOverC(shape) + x), Cube(OneOverC(shape)))

\* if (v <= 0) continue
SkipsNever(v) == FALSE
Skips(v) == v.num <= 0

\* u < 1 - 0.0331 * xSquared * xSquared
SqueezeAccepts(u, x) == u * 10000 < UDen * (10000 - 331 * x * x * x * x)

\* Math.log(u) < 0.5 * xSquared + d * (1 - v + Math.log(v)), that is
\* u < exp(0.5 * xSquared + d * (1 - v)) * v^d; the right-hand side in
\* thousandths, rounded down, for the shapes and normals explored
LogBound(shape, x) ==
  IF x = 0 THEN 1000
  ELSE IF shape = 4 THEN 656
  ELSE IF x < 0 THEN 727 ELSE 874
LogAccepts(u, shape, x) == u * 1000 < UDen * LogBound(shape, x)

\* Math.pow(u, 1 / shape) for the shape below 1 explored (1/3): u^3
PowInverseShape(u, shape) == Quot(Cube(u), Cube(UDen))

\* products and the ratio x / (x + y) of quotients
Times(a, b) == Quot(a.num * b.num, a.den * b.den)
RECURSIVE TimesAll(_, _)
TimesAll(a, factors) ==
  IF Len(factors) = 0 THEN a ELSE TimesAll(Times(a, Head(factors)), Tail(factors))
RatioOfSum(x, y) == Quot(x.num * y.den, x.num * y.den + y.num * x.den)

\* the arguments of one sampleBeta call; sampleGamma(alpha) is entered
BetaInit ==
  /\ betaIn \in [alpha : Shapes, beta : Shapes]
  /\ betaPc = "x"
  /\ gShape = betaIn.alpha
  /\ gScales = <<>> /\ gFirst = <<>> /\ betaOut = <<>>
  /\ candidate = <<>> /\ returnedV = <<>>

\* sampleGamma(shape) with shape < 1: const u = rng(); then the call of
\* sampleGamma(shape + 1), whose value is multiplied by Math.pow(u, 1 / shape)
GammaRecurse(u) ==
  /\ betaPc \in {"x", "y"}
  /\ gShape < ShapeDen
  /\ gScales' = Append(gScales, PowInverseShape(u, gShape))
  /\ gShape' = gShape + ShapeDen
  /\ UNCHANGED <<betaIn, betaPc, gFirst, betaOut, candidate, returnedV>>

\* one pass of the while (true) loop of sampleGamma(shape), shape >= 1, and
\* what follows a return: the waiting callers multiply, sampleBeta goes on
\* with sampleGamma(beta) or returns x / (x + y)
GammaIterate(x, u) ==
  /\ betaPc \in {"x", "y"}
  /\ gShape >= ShapeDen
  /\ LET v == CandidateV(gShape, x)
         outcome == IF Skips(v) THEN "continue"
                    ELSE IF SqueezeAccepts(u, x) \/ LogAccepts(u, gShape, x)
                         THEN "return" ELSE "again"
         value == TimesAll(Times(ShapeD(gShape), v), gScales)
     IN /\ candidate' = <<[x |-> x, v |-> v, outcome |-> outcome]>>
        /\ IF outcome # "return"
           THEN UNCHANGED <<betaPc, gShape, gScales, gFirst, betaOut, returnedV>>
           ELSE /\ returnedV' = Append(returnedV, v)
                /\ gScales' = <<>>
                /\ IF betaPc = "x"
                   THEN /\ gFirst' = <<value>>
                        /\ betaPc' = "y"
                        /\ gShape' = betaIn.beta
                        /\ UNCHANGED betaOut
                   ELSE /\ betaOut' = <<RatioOfSum(gFirst[1], value)>>
                        /\ betaPc' = "done"
                        /\ UNCHANGED <<gFirst, gShape>>
  /\ UNCHANGED betaIn

BetaOthers ==
  <<policyIn, policyOut, pctValues, pctQ, pctOut, unitVars, sliderVars, engineVars, appVars>>

BetaRecurseStep == (\E u \in Uniforms : GammaRecurse(u)) /\ UNCHANGED BetaOthers
BetaIterateStep ==
  (\E x \in Normals, u \in Uniforms : GammaIterate(x, u)) /\ UNCHANGED BetaOthers
\* a pass that returns
BetaReturnStep == BetaIterateStep /\ betaPc' # betaPc

BetaNext == BetaRecurseStep \/ BetaIterateStep

\* a fair random stream: the draws that make a loop return keep having
\* positive probability, so they eventually occur
BetaFairness == WF_vars(BetaRecurseStep) /\ WF_vars(BetaReturnStep)

\* ------------------------------------------------------------ SliderInput
\* min, max and value lie in -1..MaxSlide, entries one step beyond
MaxSlide == 3
\* step lies in 0..MaxSlideStep (0: no stepping)
MaxSlideStep == 2
\* onChange calls in one behaviour
MaxCalls == 2

\* Number(event.target.value): a number, or NaN for a text that is none
NaN == [nan |-> TRUE, n |-> 0]
Num(n) == [nan |-> FALSE, n |-> n]
Entries == {NaN} \cup {Num(n) : n \in -2..(MaxSlide + 1)}

\* clampValue(next)
clampValue(next, props) ==
  IF next.nan THEN Num(props.value)
  ELSE IF next.n < props.min THEN Num(props.min)
  ELSE IF next.n > props.max THEN Num(props.max)
  ELSE next

\* Math.round(a / b) for b > 0: the nearest integer, halves upwards
RoundDiv(a, b) == (2 * a + b) \div (2 * b)

\* applyStep(valueToClamp); Number(stepped.toFixed(6)) leaves the integers
\* used here as they are
applyStep(v, props) ==
  IF props.step = 0 THEN v
  ELSE Num(RoundDiv(v.n, props.step) * props.step)

\* the props of one SliderInput with the linear scale and inputScale = 1
SliderInit ==
  /\ sliderProps \in {q \in [min : -1..MaxSlide, max : -1..MaxSlide,
                              step : 0..MaxSlideStep, value : -1..MaxSlide] :
                        q.min <= q.max}
  /\ onChangeCalls = <<>>

SliderOthers ==
  <<policyIn, policyOut, pctValues, pctQ, pctOut, unitVars, betaVars, engineVars, appVars>>

\* handleSliderChange(event): the range input delivers numbers only
HandleSliderChange ==
  /\ Len(onChangeCalls) < MaxCalls
  /\ \E entry \in Entries \ {NaN} :
       onChangeCalls' = Append(onChangeCalls,
         [input |-> "range", entry |-> entry,
          value |-> applyStep(clampValue(entry, sliderProps), sliderProps)])
  /\ UNCHANGED <<sliderProps, SliderOthers>>

\* handleNumberChange(event)
HandleNumberChange ==
  /\ Len(onChangeCalls) < MaxCalls
  /\ \E entry \in Entries :
       onChangeCalls' = Append(onChangeCalls,
         [input |-> "number", entry |-> entry,
          value |-> applyStep(clampValue(entry, sliderProps), sliderProps)])
  /\ UNCHANGED <<sliderProps, SliderOthers>>

SliderNext == HandleSliderChange \/ HandleNumberChange

\* ======================================================== App and worker
\* requests posted in one behaviour
MaxRequests == 3
\* updateParameters calls in one behaviour
MaxEdits == 2
\* length of the milestone list in the form
MaxMilestones == 4

\* Milestone targets are in units of $100,000.
\* DEFAULT_PARAMETERS, reduced to the fields updateParameters inspects
DEFAULT_PARAMETERS ==
  [months |-> 72, exitMonth |-> 42, milestoneTargets |-> <<123, 2500, 25000>>]

\* addMilestone: 1_000_000_000
NewMilestoneTarget == 10000

\* PRESETS: id -> params (the exitMonth field; the other preset fields are
\* not inspected by updateParameters)
PresetIds == {"early", "mid", "late"}
PresetParams(id) ==
  IF id = "early" THEN [exitMonth |-> 48]
  ELSE IF id = "mid" THEN [exitMonth |-> 42]
  ELSE [exitMonth |-> 36]

NoPreset == "null"

\* values a slider, a number field or an imported file supplies
MonthValues == {-1, 0, 40}
TargetValues == {50, 2500}

\* JSON.stringify / JSON.parse.  The text of a number is its sign and its
\* digits; the text of an object holds one member per field, an array one
\* element per entry.
ArrayFields == {"milestoneTargets"}
JsonNumber(n) == [negative |-> n < 0, digits |-> IF n < 0 THEN -n ELSE n]
NumberOf(token) == IF token.negative THEN -token.digits ELSE token.digits
JsonStringify(p) ==
  [f \in DOMAIN p |->
     IF f \in ArrayFields THEN [i \in 1..Len(p[f]) |-> JsonNumber(p[f][i])]
     ELSE JsonNumber(p[f])]
JsonParse(text) ==
  [f \in DOMAIN text |->
     IF f \in ArrayFields THEN [i \in 1..Len(text[f]) |-> NumberOf(text[f][i])]
     ELSE NumberOf(text[f])]

\* a file whose text is not JSON, and JSON.parse in a try block: the value
\* parsed, or the SyntaxError thrown
Malformed == [malformed |-> TRUE]
IsJson(text) == "malformed" \notin DOMAIN text
TryJsonParseLenient(text) ==
  [ok |-> TRUE, value |-> IF IsJson(text) THEN JsonParse(text) ELSE <<>>]
TryJsonParse(text) ==
  IF IsJson(text) THEN [ok |-> TRUE, value |-> JsonParse(text)] ELSE [ok |-> FALSE]

\* settings files written by hand rather than exported
HandWrittenSettings ==
  {[months |-> 0, exitMonth |-> 40], [milestoneTargets |-> <<2500, 50>>],
   [months |-> -1]}

\* { ...prev, ...partial }
MergePrevWins(prev, partial) == prev
Merge(prev, partial) ==
  [f \in DOMAIN prev |-> IF f \in DOMAIN partial THEN partial[f] ELSE prev[f]]

\* [...partial.milestoneTargets].sort((a, b) => a - b)
KeepMilestoneTargets(targets) == targets
SortMilestoneTargets(targets) == SortAsc(targets)

\* the updater of setFormParameters in updateParameters (part_001)
NextFormParameters(prev, partial) ==
  LET n0 == Merge(prev, partial)
      n1 == IF n0.months < 0 THEN [n0 EXCEPT !.months = 0] ELSE n0
      n2 == IF "months" \in DOMAIN partial /\ n1.exitMonth > partial.months
            THEN [n1 EXCEPT !.exitMonth = partial.months] ELSE n1
      n3 == IF "exitMonth" \in DOMAIN partial /\ partial.exitMonth > n2.months
            THEN [n2 EXCEPT !.exitMonth = n2.months] ELSE n2
      n4 == IF n3.exitMonth < 0 THEN [n3 EXCEPT !.exitMonth = 0] ELSE n3
      n5 == IF "milestoneTargets" \in DOMAIN partial
            THEN [n4 EXCEPT !.milestoneTargets = SortMilestoneTargets(partial.milestoneTargets)] ELSE n4
  IN n5

\* the updater of setParameters in updateParameters (random.ts revision)
NextParametersDirect(prev, partial) ==
  LET n0 == Merge(prev, partial)
      n2 == IF "months" \in DOMAIN partial /\ n0.exitMonth > partial.months
            THEN [n0 EXCEPT !.exitMonth = partial.months] ELSE n0
      n3 == IF "exitMonth" \in DOMAIN partial /\ partial.exitMonth > n2.months
            THEN [n2 EXCEPT !.exitMonth = n2.months] ELSE n2
      n5 == IF "milestoneTargets" \in DOMAIN partial
            THEN [n3 EXCEPT !.milestoneTargets = SortMilestoneTargets(partial.milestoneTargets)] ELSE n3
  IN n5

\* const nextRequestId = requestIdRef.current + 1
NextRequestIdSame(current) == current
NextRequestId(current) == current + 1

\* runSimulation(payload) as the worker sees it: the result of the payload
\* (the engine itself is SpecEngine)
ResultOf(payload) == [of |-> payload]

\* new Array(months) in runSimulation throws a RangeError for a length below 0
\* (the rows are created for every payload: trials is not a form field here
\* and stays at its positive default)
RunThrows(payload) == payload.months < 0

\* event.data.requestId === requestIdRef.current
IsLatestAny(requestId, current) == TRUE
IsLatest(requestId, current) == requestId = current

\* useState / useRef initial values
AppInit ==
  /\ revision \in {"form", "direct"}
  /\ mounted = FALSE
  /\ formParameters = DEFAULT_PARAMETERS
  /\ parameters = DEFAULT_PARAMETERS
  /\ activePreset = "mid"
  /\ result = <<>>
  /\ isRunning = FALSE
  /\ hasPendingChanges = FALSE
  /\ requestIdRef = 0
  /\ toWorker = <<>> /\ toApp = <<>>
  /\ posted = <<>> /\ lastHandled = 0 /\ edits = 0 /\ removeIgnored = FALSE
  /\ exportFile = <<>> /\ exportedParams = <<>> /\ importLog = <<>>
  /\ malformedRead = FALSE /\ errorReported = FALSE

AppIdle ==
  /\ revision = "form"
  /\ mounted = FALSE
  /\ formParameters = DEFAULT_PARAMETERS
  /\ parameters = DEFAULT_PARAMETERS
  /\ activePreset = "mid"
  /\ result = <<>>
  /\ isRunning = FALSE
  /\ hasPendingChanges = FALSE
  /\ requestIdRef = 0
  /\ toWorker = <<>> /\ toApp = <<>>
  /\ posted = <<>> /\ lastHandled = 0 /\ edits = 0 /\ removeIgnored = FALSE
  /\ exportFile = <<>> /\ exportedParams = <<>> /\ importLog = <<>>
  /\ malformedRead = FALSE /\ errorReported = FALSE

\* the effect on [parameters, worker]: a request for `payload` is posted
PostRequest(payload) ==
  LET nextRequestId == NextRequestId(requestIdRef)
  IN /\ requestIdRef' = nextRequestId
     /\ isRunning' = TRUE
     /\ toWorker' = Append(toWorker, [type |-> "run", requestId |-> nextRequestId,
                                      payload |-> payload])
     /\ posted' = Append(posted, nextRequestId)

\* first render: the message listener is registered and the request effect
\* runs for the initial parameters
Mount ==
  /\ ~mounted
  /\ mounted' = TRUE
  /\ PostRequest(parameters)
  /\ UNCHANGED <<revision, formParameters, parameters, activePreset, result,
                 hasPendingChanges, toApp, lastHandled, edits, removeIgnored, fileVars>>

\* updateParameters(partial, options).  In the "form" source it changes the
\* form only; `eager` is whether React ran the state updater during the call
\* (nextParams is null otherwise).  In the "direct" source it changes
\* `parameters`, which re-runs the request effect.
UpdateParameters(partial, preservePreset, presetId) ==
  /\ mounted
  /\ edits < MaxEdits
  /\ edits' = edits + 1
  /\ IF revision = "form"
     THEN /\ formParameters' = NextFormParameters(formParameters, partial)
          /\ activePreset' = IF preservePreset THEN presetId ELSE NoPreset
          /\ \E eager \in BOOLEAN :
               hasPendingChanges' = IF eager THEN formParameters' # parameters
                                    ELSE hasPendingChanges
          /\ UNCHANGED <<parameters, requestIdRef, isRunning, toWorker, posted>>
     ELSE /\ requestIdRef < MaxRequests
          /\ parameters' = NextParametersDirect(parameters, partial)
          /\ activePreset' = NoPreset
          /\ PostRequest(parameters')
          /\ UNCHANGED <<formParameters, hasPendingChanges>>
  /\ UNCHANGED <<revision, mounted, result, toApp, lastHandled>>

\* the parameters the form shows: formParameters, or parameters in the
\* source that has no separate form state
Shown == IF revision = "form" THEN formParameters ELSE parameters

\* a slider or number field of months / exitMonth
EditField ==
  /\ \E v \in MonthValues :
       \/ UpdateParameters([months |-> v], FALSE, NoPreset)
       \/ UpdateParameters([exitMonth |-> v], FALSE, NoPreset)
  /\ UNCHANGED <<removeIgnored, fileVars>>

\* handlePreset(presetId)
HandlePreset ==
  /\ \E id \in PresetIds : UpdateParameters(PresetParams(id), TRUE, id)
  /\ UNCHANGED <<removeIgnored, fileVars>>

\* handleMilestoneChange(index, value)
HandleMilestoneChange ==
  /\ \E i \in 1..Len(Shown.milestoneTargets), v \in TargetValues :
       UpdateParameters(
         [milestoneTargets |-> [Shown.milestoneTargets EXCEPT ![i] = v]], FALSE, NoPreset)
  /\ UNCHANGED <<removeIgnored, fileVars>>

\* addMilestone()
AddMilestone ==
  /\ Len(Shown.milestoneTargets) < MaxMilestones
  /\ UpdateParameters(
       [milestoneTargets |-> Append(Shown.milestoneTargets, NewMilestoneTarget)],
       FALSE, NoPreset)
  /\ UNCHANGED <<removeIgnored, fileVars>>

\* removeMilestone(index): if (milestoneTargets.length <= 1) return
RemoveAt(s, i) == [j \in 1..(Len(s) - 1) |-> IF j < i THEN s[j] ELSE s[j + 1]]
RemoveMilestone ==
  /\ mounted
  /\ \E i \in 1..Len(Shown.milestoneTargets) :
       IF Len(Shown.milestoneTargets) <= 1
       THEN /\ removeIgnored' = TRUE
            /\ UNCHANGED <<revision, mounted, formParameters, parameters, activePreset,
                           result, isRunning, hasPendingChanges, requestIdRef, toWorker,
                           toApp, posted, lastHandled, edits>>
       ELSE /\ UpdateParameters([milestoneTargets |-> RemoveAt(Shown.milestoneTargets, i)],
                                FALSE, NoPreset)
            /\ UNCHANGED removeIgnored
  /\ UNCHANGED fileVars

\* handleExport(): the file downloaded holds JSON.stringify of the parameters
\* shown (the button is disabled while isRunning)
HandleExport ==
  /\ mounted
  /\ ~isRunning
  /\ exportFile' = <<JsonStringify(Shown)>>
  /\ exportedParams' = <<Shown>>
  /\ UNCHANGED <<revision, mounted, formParameters, parameters, activePreset, result,
                 isRunning, hasPendingChanges, requestIdRef, toWorker, toApp,
                 posted, lastHandled, edits, removeIgnored, importLog, malformedRead,
                 errorReported>>

\* the files a user can pick: the file exported last, a hand-written one, or
\* a file that is not JSON
ImportFiles ==
  {exportFile[i] : i \in 1..Len(exportFile)}
  \cup {JsonStringify(r) : r \in HandWrittenSettings}
  \cup {Malformed}

\* handleImport(event), with reader.onload: updateParameters(JSON.parse(text))
\* in a try block whose catch reports the error
HandleImport ==
  /\ mounted
  /\ \E text \in ImportFiles :
       LET parsed == TryJsonParse(text)
       IN /\ malformedRead' = (malformedRead \/ ~IsJson(text))
          /\ IF parsed.ok
             THEN /\ UpdateParameters(parsed.value, FALSE, NoPreset)
                  /\ importLog' = Append(importLog, [text |-> text, before |-> Shown])
                  /\ UNCHANGED errorReported
             ELSE /\ errorReported' = TRUE
                  /\ UNCHANGED <<revision, mounted, formParameters, parameters,
                                 activePreset, result, isRunning, hasPendingChanges,
                                 requestIdRef, toWorker, toApp, posted, lastHandled,
                                 edits, importLog>>
  /\ UNCHANGED <<removeIgnored, exportFile, exportedParams>>

\* runSimulation() of the App (the Run Simulation button, disabled while
\* isRunning) followed by the request effect that the new `parameters` runs
RunSimulation ==
  /\ mounted
  /\ revision = "form"
  /\ ~isRunning
  /\ requestIdRef < MaxRequests
  /\ hasPendingChanges' = FALSE
  /\ parameters' = formParameters
  /\ PostRequest(formParameters)
  /\ UNCHANGED <<revision, mounted, formParameters, activePreset, result, toApp,
                 lastHandled, edits, removeIgnored, fileVars>>

\* the worker's message listener, for the oldest unhandled message; when
\* runSimulation throws, the listener ends without posting
WorkerHandle ==
  /\ Len(toWorker) > 0
  /\ LET data == Head(toWorker)
     IN toApp' = IF data.type = "run" /\ ~RunThrows(data.payload)
                 THEN Append(toApp, [requestId |-> data.requestId,
                                     result |-> ResultOf(data.payload)])
                 ELSE toApp
  /\ toWorker' = Tail(toWorker)
  /\ UNCHANGED <<revision, mounted, formParameters, parameters, activePreset, result,
                 isRunning, hasPendingChanges, requestIdRef, posted, lastHandled, edits,
                 removeIgnored, fileVars>>

\* handleMessage(event) of the App, for the oldest undelivered response
HandleMessage ==
  /\ mounted
  /\ Len(toApp) > 0
  /\ LET data == Head(toApp)
     IN /\ IF IsLatest(data.requestId, requestIdRef)
           THEN result' = <<data.result>> /\ isRunning' = FALSE
           ELSE UNCHANGED <<result, isRunning>>
        /\ lastHandled' = data.requestId
  /\ toApp' = Tail(toApp)
  /\ UNCHANGED <<revision, mounted, formParameters, parameters, activePreset,
                 hasPendingChanges, requestIdRef, toWorker, posted, edits, removeIgnored, fileVars>>

AppNext ==
  /\ \/ Mount
     \/ EditField
     \/ HandlePreset
     \/ HandleMilestoneChange
     \/ AddMilestone
     \/ RemoveMilestone
     \/ HandleExport
     \/ HandleImport
     \/ RunSimulation
     \/ WorkerHandle
     \/ HandleMessage
  /\ UNCHANGED <<engineVars, callVars>>

\* the App right after construction; no simulation call is modelled here
\* (the worker's runSimulation is ResultOf)
InitApp == AppInit /\ EngineIdle /\ CallsIdle

SpecApp == InitApp /\ [][AppNext]_vars

\* The event loops of the worker and of the page deliver every queued message
\* event: a listener that has a message to handle eventually runs.
AppFairness ==
  /\ WF_vars(WorkerHandle /\ UNCHANGED <<engineVars, callVars>>)
  /\ WF_vars(HandleMessage /\ UNCHANGED <<engineVars, callVars>>)

SpecAppLive == InitApp /\ [][AppNext]_vars /\ AppFairness

\* one call of runSimulation
InitEngine == EngineInit /\ AppIdle /\ CallsIdle

SpecEngine == InitEngine /\ [][EngineNext]_vars

\* one call of runSimulation with a horizon beyond the trailing year
InitLong == LongInit /\ AppIdle /\ CallsIdle

SpecLong == InitLong /\ [][LongNext]_vars

\* ================================================ buildPolicy on drawn inputs
InitPolicy == PolicyInit /\ PercentileIdle /\ UnitIdle /\ BetaIdle /\ SliderIdle /\ EngineIdle /\ AppIdle

SpecPolicy == InitPolicy /\ [][PolicyNext]_vars

\* ================================================= percentile on drawn inputs
InitPercentile == PercentileInit /\ PolicyIdle /\ UnitIdle /\ BetaIdle /\ SliderIdle /\ EngineIdle /\ AppIdle

SpecPercentile == InitPercentile /\ [][PercentileNext]_vars

\* ========================================= buildUnitEconomics on drawn inputs
InitUnit == UnitInit /\ PolicyIdle /\ PercentileIdle /\ BetaIdle /\ SliderIdle /\ EngineIdle /\ AppIdle

SpecUnit == InitUnit /\ [][UnitNext]_vars

\* ================================================= sampleBeta on drawn inputs
InitBeta ==
  BetaInit /\ PolicyIdle /\ PercentileIdle /\ UnitIdle /\ SliderIdle /\ EngineIdle /\ AppIdle

\* ===================================================== SliderInput on drawn inputs
InitSlider ==
  SliderInit /\ PolicyIdle /\ PercentileIdle /\ UnitIdle /\ BetaIdle /\ EngineIdle /\ AppIdle

SpecSlider == InitSlider /\ [][SliderNext]_vars

SpecBeta == InitBeta /\ [][BetaNext]_vars /\ BetaFairness

\* ================================================================= claims
\* The trial whose totals were pushed last is trial number `trial` (1-based);
\* its locals and its history are still in place until the next trial begins.
TrialRecorded == pc = "trialInit" /\ trial > 0

\* the row of the trial whose history is in place (0-based index + 1)
HistoryRow == IF pc = "month" THEN trial + 1 ELSE trial

\* what the proceeds calculator returned in the current trial
ReturnedImmediate == IF saleResult = <<>> THEN 0 ELSE saleResult[1].immediate
ReturnedItems == IF saleResult = <<>> THEN <<>> ELSE saleResult[1].scheduled
ReturnedOf(type) == SumType(ReturnedItems, type)

LogItems == [i \in 1..Len(appliedLog) |-> appliedLog[i].item]

\* C1: per trial the recorded total is immediate + escrow + earn-out under
\* M&A (immediate + lock-up under IPO), and the recorded components are
\* exactly the amounts the proceeds calculator returned at the exit month:
\* nothing counted twice, nothing lost.
ProceedsConservation ==
  TrialRecorded =>
    /\ totalProceeds[trial] =
         IF params.exitStrategy = "ma"
         THEN immediateProceeds[trial] + escrowProceeds[trial] + earnOutProceeds[trial]
         ELSE immediateProceeds[trial] + lockupProceeds[trial]
    /\ immediateProceeds[trial] = ReturnedImmediate
    /\ escrowProceeds[trial] = ReturnedOf("escrow")
    /\ earnOutProceeds[trial] = ReturnedOf("earnOut")
    /\ lockupProceeds[trial] = ReturnedOf("lockup")

\* C2: every entry placed in the pending schedule is applied exactly once, in
\* the month equal to its due month, adding its amount to cash received and
\* to its category total, and removed then; when the month loop ends the
\* schedule holds no unapplied entry.
ScheduleConsumedOnce ==
  /\ \A i \in 1..Len(appliedLog) : appliedLog[i].at = appliedLog[i].item.month
  /\ \A i, j \in 1..Len(appliedLog) : i # j => appliedLog[i].item # appliedLog[j].item
  /\ \A k \in DOMAIN scheduled :
       \A i \in 1..Len(scheduled[k]) : \A j \in 1..Len(appliedLog) :
         appliedLog[j].item # scheduled[k][i]
  /\ pc = "month" =>
       /\ escrowTotal = SumType(LogItems, "escrow")
       /\ earnOutTotal = SumType(LogItems, "earnOut")
       /\ lockupTotal = SumType(LogItems, "lockup")
       /\ proceedsReceived = SumAmounts(LogItems)
                             + (IF ReturnedImmediate > 0 THEN ReturnedImmediate ELSE 0)
  /\ (pc = "month" /\ month = params.months) => DOMAIN scheduled = {}

\* C3: an amount due beyond the horizon is added only to the final month's
\* liquidCash of its own trial; it changes no earlier month's liquidCash and
\* no treasury, MRR or valuation value, and it is counted in the trial's
\* per-category and total proceeds.
RECURSIVE SelectBeyond(_, _)
SelectBeyond(items, months) ==
  IF Len(items) = 0 THEN <<>>
  ELSE (IF Head(items).month >= months THEN <<Head(items)>> ELSE <<>>)
       \o SelectBeyond(Tail(items), months)
Beyond == SelectBeyond(ReturnedItems, params.months)

RECURSIVE AppliedBy(_, _)
AppliedBy(log, k) ==
  IF Len(log) = 0 THEN 0
  ELSE (IF Head(log).at <= k THEN Head(log).item.amount ELSE 0) + AppliedBy(Tail(log), k)

\* cash received up to and including month index k (0-based), leaving out
\* what is due beyond the horizon
CashBy(k) ==
  (IF saleResult # <<>> /\ params.exitMonth - 1 <= k /\ ReturnedImmediate > 0
   THEN ReturnedImmediate ELSE 0) + AppliedBy(appliedLog, k)

RECURSIVE ProfitTaken(_, _, _)
ProfitTaken(row, m, p) ==
  IF m = 0 THEN 0
  ELSE ProfitTaken(row, m - 1, p) + Scale(Scale(row[m], p.grossMargin), p.profitTakeRate)

FutureOnlyInFinalMonth ==
  TrialRecorded =>
    /\ \A m \in 1..params.months :
         /\ liquidCashPaths[trial][m] - treasuryPaths[trial][m]
              = CashBy(m - 1) + (IF m = params.months THEN SumAmounts(Beyond) ELSE 0)
         /\ treasuryPaths[trial][m] = ProfitTaken(mrrPaths[trial], m, params)
         /\ valuationPaths[trial][m]
              = mrrPaths[trial][m] * MonthsPerYear * params.valuationMultiple
    /\ \A i \in 1..Len(Beyond) : \A j \in 1..Len(appliedLog) :
         appliedLog[j].item # Beyond[i]
    /\ escrowProceeds[trial] = SumType(LogItems, "escrow") + SumType(Beyond, "escrow")
    /\ earnOutProceeds[trial] = SumType(LogItems, "earnOut") + SumType(Beyond, "earnOut")
    /\ lockupProceeds[trial] = SumType(LogItems, "lockup") + SumType(Beyond, "lockup")
    /\ totalProceeds[trial] = ReturnedImmediate + SumAmounts(LogItems) + SumAmounts(Beyond)

FutureFoldStep ==
  (pc = "month" /\ pc' = "trialInit") =>
    /\ mrrPaths' = mrrPaths /\ valuationPaths' = valuationPaths
    /\ treasuryPaths' = treasuryPaths
    /\ \A t \in 1..params.trials : \A m \in 1..params.months :
         (t # trial + 1 \/ m # params.months) =>
           liquidCashPaths'[t][m] = liquidCashPaths[t][m]

FutureFoldedIntoFinalMonth == [](FutureOnlyInFinalMonth) /\ [][FutureFoldStep]_vars

FutureFoldedWitness ==
  /\ TrialRecorded
  /\ params.months >= 2
  /\ Len(Beyond) > 0
  /\ Len(appliedLog) > 0

\* C5: configuration errors are detected before any trial executes, and no
\* SimulationResult is returned.
ConfigError(p) ==
  \/ p.months <= 0 \/ p.trials <= 0
  \/ p.exitMonth < 1 \/ p.exitMonth > p.months
  \/ p.churnAlpha <= 0 \/ p.churnBeta <= 0

ConfigErrorsFailFast ==
  (pc # "idle" /\ ConfigError(params)) =>
    /\ pc = "trialInit" /\ trial = 0
    /\ Len(totalProceeds) = 0
    /\ simResult = <<>>

\* C6: a response whose requestId differs from the most recently issued id
\* changes neither the displayed result nor the running flag; only a response
\* carrying the latest id sets the result and clears the running flag.
HandleMessageStep == Len(toApp) > 0 /\ toApp' = Tail(toApp)

StaleResponseIgnoredStep ==
  /\ HandleMessageStep =>
       IF Head(toApp).requestId = requestIdRef
       THEN result' = <<Head(toApp).result>> /\ isRunning' = FALSE
       ELSE result' = result /\ isRunning' = isRunning
  /\ (result' # result \/ (isRunning /\ ~isRunning')) =>
       (HandleMessageStep /\ Head(toApp).requestId = requestIdRef)

StaleResponseIgnored == [][StaleResponseIgnoredStep]_vars

StaleResponseWitness ==
  /\ lastHandled >= 1
  /\ lastHandled < requestIdRef
  /\ result = <<>>
  /\ isRunning

\* C7: a request superseded while in flight is abandoned: it never runs to
\* completion and never produces a response.
SupersededRunAbandonedStep ==
  Len(toApp') > Len(toApp) => toApp'[Len(toApp')].requestId = requestIdRef

SupersededRunAbandoned == [][SupersededRunAbandonedStep]_vars

\* C8: request identifiers are strictly increasing: every request posted
\* carries an id greater than every id posted before, and no two share an id.
RequestIdsIncreasing ==
  /\ \A i, j \in 1..Len(posted) : i < j => posted[i] < posted[j]
  /\ \A i \in 1..Len(toWorker) : \E j \in 1..Len(posted) :
       /\ toWorker[i].requestId = posted[j]
       /\ \A k \in 1..Len(toWorker) : toWorker[k].requestId = posted[j] => k = i

RequestIdsWitness == Len(posted) >= 3 /\ Len(toWorker) >= 2

\* C9: given milestone targets in any order, the milestones of the
\* PolicyResult are sorted ascending by target, expected months are assigned
\* by ascending rank, and nextMilestone is the smallest unachieved target.
MilestonesReportedAscending ==
  policyOut # <<>> =>
    LET ms == policyOut[1].milestones
        unachieved == {i \in 1..Len(ms) : ms[i].achievedMonth = NoMonth}
    IN /\ \A i, j \in 1..Len(ms) : i < j => ms[i].target <= ms[j].target
       /\ \A i, j \in 1..Len(ms) :
            ms[i].target < ms[j].target => ms[i].expectedMonth <= ms[j].expectedMonth
       /\ IF unachieved = {} THEN policyOut[1].nextMilestone = <<>>
          ELSE /\ policyOut[1].nextMilestone # <<>>
               /\ \A i \in unachieved : policyOut[1].nextMilestone[1].target <= ms[i].target

\* C10: over a non-empty list percentile returns the minimum for q = 0, the
\* maximum for q = 1, the common value when all values are equal, and
\* otherwise the linear interpolation between the sorted elements at
\* floor((n-1)q) and the next index; it never modifies the input list.
Positions(v) == 1..Len(v)
MinOf(v) == CHOOSE x \in {v[i] : i \in Positions(v)} : \A i \in Positions(v) : x <= v[i]
MaxOf(v) == CHOOSE x \in {v[i] : i \in Positions(v)} : \A i \in Positions(v) : x >= v[i]
\* the k-th smallest element (k from 1), by counting
KthSmallest(v, k) ==
  CHOOSE x \in {v[i] : i \in Positions(v)} :
    /\ Cardinality({i \in Positions(v) : v[i] < x}) < k
    /\ Cardinality({i \in Positions(v) : v[i] <= x}) >= k
AllEqual(v) == \A i, j \in Positions(v) : v[i] = v[j]

PercentileExpected(v, qn, out) ==
  LET n == Len(v)
      k == ((n - 1) * qn) \div QDen
      rest == ((n - 1) * qn) % QDen
  IN /\ qn = 0 => out = MinOf(v) * QDen
     /\ qn = QDen => out = MaxOf(v) * QDen
     /\ AllEqual(v) => out = v[1] * QDen
     /\ (qn < QDen /\ ~AllEqual(v)) =>
          out = KthSmallest(v, k + 1) * QDen
                + rest * (KthSmallest(v, k + 2) - KthSmallest(v, k + 1))

PercentileCorrectStep ==
  (pctOut = <<>> /\ pctOut' # <<>> /\ Len(pctValues) > 0) =>
    /\ pctValues' = pctValues
    /\ PercentileExpected(pctValues, pctQ, pctOut'[1])

PercentileCorrect == [][PercentileCorrectStep]_vars

PercentileWitness ==
  /\ pctOut # <<>>
  /\ Len(pctValues) = MaxLen
  /\ pctValues[1] > pctValues[2]
  /\ pctQ = 1
  /\ pctOut[1] % QDen # 0

\* C11: importing the text that handleExport wrote yields parameters that are
\* field-for-field equal to the exported ones, whatever the form holds at the
\* time of the import.
ImportStep == Len(importLog') = Len(importLog) + 1

ImportedExportStep ==
  /\ ImportStep
  /\ exportFile # <<>>
  /\ importLog'[Len(importLog')].text = exportFile[1]

ExportImportRoundTripStep ==
  ImportedExportStep =>
    /\ DOMAIN Shown' = DOMAIN exportedParams[1]
    /\ \A f \in DOMAIN Shown' : Shown'[f] = exportedParams[1][f]

NoItemOf(type) ==
  /\ \A i \in 1..Len(ReturnedItems) : ReturnedItems[i].type # type
  /\ \A k \in DOMAIN scheduled : \A i \in 1..Len(scheduled[k]) : scheduled[k][i].type # type
  /\ \A i \in 1..Len(appliedLog) : appliedLog[i].item.type # type

AllZero(list) == \A i \in 1..Len(list) : list[i] = 0

ZeroStat == [median |-> 0, p10 |-> 0, p90 |-> 0]

AbsentCategoriesZero ==
  /\ (params.exitStrategy = "ma" /\ params.earnOutRate = 0) =>
       /\ NoItemOf("earnOut")
       /\ earnOutTotal = 0 /\ futureEarnOut = 0
       /\ AllZero(earnOutProceeds)
       /\ simResult # <<>> => simResult[1].saleSummary.earnOut = ZeroStat
  /\ params.exitStrategy = "ma" =>
       /\ NoItemOf("lockup")
       /\ lockupTotal = 0 /\ futureLockup = 0
       /\ AllZero(lockupProceeds)
       /\ simResult # <<>> => simResult[1].saleSummary.postLockup = ZeroStat
  /\ params.exitStrategy = "ipo" =>
       /\ NoItemOf("escrow") /\ NoItemOf("earnOut")
       /\ escrowTotal = 0 /\ futureEscrow = 0 /\ earnOutTotal = 0 /\ futureEarnOut = 0
       /\ AllZero(escrowProceeds) /\ AllZero(earnOutProceeds)
       /\ simResult # <<>> =>
            /\ simResult[1].saleSummary.escrow = ZeroStat
            /\ simResult[1].saleSummary.earnOut = ZeroStat

\* an M&A run of two trials with an escrow and no earn-out has returned
AbsentCategoriesWitness ==
  /\ simResult # <<>>
  /\ params.exitStrategy = "ma" /\ params.earnOutRate = 0 /\ params.escrowRate > 0
  /\ params.trials = 2
  /\ \A t \in 1..2 : escrowProceeds[t] > 0 /\ immediateProceeds[t] > 0

\* C13: with exitMonth = 1 under M&A the trailing MRR handed to the proceeds
\* calculator is the initial MRR and the growth used for the earn-out
\* multiplier is 0, so for earnOutGrowthTarget > 0 the earn-out payout is 0.
ExitAtFirstMonth ==
  /\ params.exitStrategy = "ma" /\ params.exitMonth = 1
  /\ saleCalls # <<>>

\* the numerator of growth = (currentMrr - growthDenominator) / growthDenominator
GrowthNumerator(call) ==
  call.currentMrr - GrowthDenominator(call.yearAgoMrr, call.currentMrr)

FirstMonthExitGrowthZero ==
  ExitAtFirstMonth =>
    /\ saleCalls[1].yearAgoMrr = params.initialMrr
    /\ GrowthNumerator(saleCalls[1]) = 0
    /\ params.earnOutGrowthTarget > 0 => ReturnedOf("earnOut") = 0

\* C13 as amended: the trailing MRR is the initial MRR and the growth is that
\* of month 1 over the initial MRR; with earnOutGrowthTarget > 0 the payout is
\* 0 when month 1's MRR does not exceed the initial MRR and positive when it
\* does (earnOutRate > 0, net after costs positive).
FirstMonthMrr == mrrPaths[HistoryRow][1]

FirstMonthExitGrowth ==
  ExitAtFirstMonth =>
    /\ saleCalls[1].yearAgoMrr = params.initialMrr
    /\ saleCalls[1].currentMrr = FirstMonthMrr
    /\ GrowthNumerator(saleCalls[1]) = FirstMonthMrr - params.initialMrr
    /\ params.earnOutGrowthTarget > 0 =>
         /\ FirstMonthMrr <= params.initialMrr => ReturnedOf("earnOut") = 0
         /\ (FirstMonthMrr > params.initialMrr /\ params.earnOutRate > 0) =>
              ReturnedOf("earnOut") > 0

FirstMonthExitGrowthWitness ==
  /\ ExitAtFirstMonth
  /\ params.earnOutGrowthTarget > 0 /\ params.earnOutRate > 0
  /\ FirstMonthMrr > params.initialMrr
  /\ ReturnedOf("earnOut") > 0

\* C14: the recommendation is SELL exactly when every milestone has an
\* achieved month (also for an empty list); otherwise PREPARE exactly when the
\* median valuation at exitMonth is >= nextMilestone.target * (1 - policyBand),
\* and HOLD in every remaining case; nextMilestone is the first milestone of
\* the list with no achieved month.
PolicyUnachieved(ms) == {i \in 1..Len(ms) : ms[i].achievedMonth = NoMonth}

FirstOf(indices) == CHOOSE i \in indices : \A j \in indices : i <= j

RecommendationRule ==
  (policyOut # <<>> /\ policyIn.params.exitMonth \in 1..Len(policyIn.valuationSeries)) =>
    LET out == policyOut[1]
        ms == out.milestones
        series == policyIn.valuationSeries
        band == policyIn.params.policyBand
        atExit == series[policyIn.params.exitMonth].median
        unachieved == PolicyUnachieved(ms)
    IN /\ Len(ms) = Len(policyIn.params.milestoneTargets)
       /\ \A i \in 1..Len(ms) :
            /\ ms[i].target = policyIn.params.milestoneTargets[i]
            /\ ms[i].achievedMonth # NoMonth <=>
                 \E k \in 1..Len(series) : series[k].median >= ms[i].target * QDen
       /\ out.recommendedAction = "SELL" <=> unachieved = {}
       /\ unachieved = {} => out.nextMilestone = <<>>
       /\ unachieved # {} =>
            /\ out.nextMilestone = <<ms[FirstOf(unachieved)]>>
            /\ out.recommendedAction \in {"PREPARE", "HOLD"}
            /\ out.recommendedAction = "PREPARE" <=>
                 atExit * Den >= ms[FirstOf(unachieved)].target * (Den - band) * QDen

\* the first milestone is achieved, the second is not, and the valuation at
\* the exit month is inside the band below it
RecommendationWitness ==
  /\ policyOut # <<>>
  /\ policyIn.params.exitMonth \in 1..Len(policyIn.valuationSeries)
  /\ Len(policyOut[1].milestones) = 2
  /\ policyOut[1].milestones[1].achievedMonth # NoMonth
  /\ policyOut[1].milestones[2].achievedMonth = NoMonth
  /\ policyIn.params.policyBand > 0
  /\ policyIn.valuationSeries[policyIn.params.exitMonth].median
       < policyOut[1].milestones[2].target * QDen
  /\ policyOut[1].recommendedAction = "PREPARE"

\* C15: buildUnitEconomics returns on every input, degenerate ones included:
\* LTV is infinite when expected churn is not positive and
\* grossMarginRevenue / expectedChurn otherwise; LTV:CAC is LTV / CAC when
\* CAC > 0 and infinite otherwise; payback months is CAC / grossMarginRevenue
\* when grossMarginRevenue > 0 and infinite otherwise.
IsInfinite(x) == x.den = 0 /\ x.num > 0

\* two quotients denote the same number
SameValue(x, y) ==
  IF x.den = 0 \/ y.den = 0
  THEN /\ x.den = 0 /\ y.den = 0
       /\ (x.num > 0 /\ y.num > 0) \/ (x.num < 0 /\ y.num < 0)
  ELSE x.num * y.den = y.num * x.den

\* churnAlpha / (churnAlpha + churnBeta) > 0
ChurnPositive(p) ==
  LET sum == p.churnAlpha + p.churnBeta
  IN IF sum = 0 THEN p.churnAlpha > 0
     ELSE (p.churnAlpha > 0 /\ sum > 0) \/ (p.churnAlpha < 0 /\ sum < 0)

UnitEconomicsDegenerate ==
  unitOut # <<>> =>
    LET p == unitIn
        out == unitOut[1]
        revenueNum == p.arpu * p.grossMargin
    IN /\ IF ChurnPositive(p)
          THEN SameValue(out.ltv, Quot(revenueNum * (p.churnAlpha + p.churnBeta),
                                       Den * p.churnAlpha))
          ELSE IsInfinite(out.ltv)
       /\ IF p.customerAcquisitionCost > 0
          THEN SameValue(out.ltvToCac,
                         Quot(out.ltv.num, out.ltv.den * p.customerAcquisitionCost))
          ELSE IsInfinite(out.ltvToCac)
       /\ IF revenueNum > 0
          THEN SameValue(out.cacPaybackMonths,
                         Quot(p.customerAcquisitionCost * Den, revenueNum))
          ELSE IsInfinite(out.cacPaybackMonths)

\* zero churn, zero revenue and zero acquisition cost: the three ratios are
\* infinite
UnitEconomicsWitness ==
  /\ unitOut # <<>>
  /\ unitIn.churnAlpha = 0 /\ unitIn.churnBeta > 0
  /\ unitIn.arpu = 0
  /\ unitIn.customerAcquisitionCost = 0
  /\ IsInfinite(unitOut[1].ltv)
  /\ IsInfinite(unitOut[1].ltvToCac)
  /\ IsInfinite(unitOut[1].cacPaybackMonths)

\* C16: the recorded path of a trial (MRR, valuation, treasury, liquidCash) and
\* its proceeds totals are determined by the parameters other than the trial
\* count and by the draws of the trial's own generator, which is seeded with
\* the trial's index; a step of a trial writes only that trial's row, and the
\* end of a trial appends only that trial's entries to the proceeds lists.
RECURSIVE CustomersAfter(_, _, _)
CustomersAfter(p, draws, m) ==
  IF m = 0 THEN Max(InitialCustomers(p.initialMrr, p.arpu), 1)
  ELSE LET survivors == Scale(CustomersAfter(p, draws, m - 1), Den - draws[m].churnRate)
       IN Max(survivors + Scale(survivors, draws[m].growthFactor - Den), 0)

MrrAfter(p, draws, m) == CustomersAfter(p, draws, m) * p.arpu

ValuationAfter(p, draws, m) == MrrAfter(p, draws, m) * MonthsPerYear * p.valuationMultiple

RECURSIVE TreasuryAfter(_, _, _)
TreasuryAfter(p, draws, m) ==
  IF m = 0 THEN 0
  ELSE TreasuryAfter(p, draws, m - 1)
       + Scale(Scale(MrrAfter(p, draws, m), p.grossMargin), p.profitTakeRate)

\* what the proceeds calculator returns at the exit month of the trial
SaleOf(p, draws) ==
  LET e == p.exitMonth
      trailing == IF e > TrailingMonths THEN MrrAfter(p, draws, e - TrailingMonths)
                  ELSE p.initialMrr
  IN IF p.exitStrategy = "ma"
     THEN computeMaProceeds(ValuationAfter(p, draws, e), p, trailing, MrrAfter(p, draws, e))
     ELSE computeIpoProceeds(ValuationAfter(p, draws, e), p)

\* the items whose due index lies in lo..hi
RECURSIVE SelectDue(_, _, _)
SelectDue(items, lo, hi) ==
  IF Len(items) = 0 THEN <<>>
  ELSE (IF Head(items).month >= lo /\ Head(items).month <= hi THEN <<Head(items)>> ELSE <<>>)
       \o SelectDue(Tail(items), lo, hi)

\* the deferred items that are ever counted: those due after the exit month
CountedItems(p, draws) ==
  IF p.exitMonth \in 1..p.months
  THEN SelectDue(SaleOf(p, draws).scheduled, p.exitMonth, p.exitMonth + MaxDelay + 1)
  ELSE <<>>

ImmediateOf(p, draws) ==
  IF p.exitMonth \in 1..p.months THEN SaleOf(p, draws).immediate ELSE 0

\* liquidCash recorded for month m; closed: the trial has ended
LiquidCashAfter(p, draws, m, closed) ==
  TreasuryAfter(p, draws, m)
  + (IF p.exitMonth \in 1..m
     THEN Max(ImmediateOf(p, draws), 0)
          + SumAmounts(SelectDue(CountedItems(p, draws), p.exitMonth, Min(m, p.months) - 1))
     ELSE 0)
  + (IF closed /\ m = p.months
     THEN SumAmounts(SelectDue(CountedItems(p, draws), p.months, p.exitMonth + MaxDelay + 1))
     ELSE 0)

TrialDetermined ==
  /\ pc \in {"month", "trialInit", "done"} /\ HistoryRow >= 1 =>
       LET p == params
           row == HistoryRow
           closed == pc # "month"
           upTo == IF closed THEN p.months ELSE month
       IN /\ rng.trial = row - 1
          /\ Len(rng.draws) = upTo
          /\ \A m \in 1..upTo :
               /\ mrrPaths[row][m] = MrrAfter(p, rng.draws, m)
               /\ valuationPaths[row][m] = ValuationAfter(p, rng.draws, m)
               /\ treasuryPaths[row][m] = TreasuryAfter(p, rng.draws, m)
               /\ liquidCashPaths[row][m] = LiquidCashAfter(p, rng.draws, m, closed)
          /\ closed =>
               /\ immediateProceeds[row] = ImmediateOf(p, rng.draws)
               /\ escrowProceeds[row] = SumType(CountedItems(p, rng.draws), "escrow")
               /\ earnOutProceeds[row] = SumType(CountedItems(p, rng.draws), "earnOut")
               /\ lockupProceeds[row] = SumType(CountedItems(p, rng.draws), "lockup")
               /\ totalProceeds[row] = ImmediateOf(p, rng.draws)
                                        + SumAmounts(CountedItems(p, rng.draws))

OtherRowsKept(paths, pathsNext, row) ==
  /\ Len(pathsNext) = Len(paths)
  /\ \A t \in 1..Len(paths) : t # row => pathsNext[t] = paths[t]

OwnEntryAppended(list, listNext) ==
  /\ Len(listNext) = Len(list) + 1
  /\ \A t \in 1..Len(list) : listNext[t] = list[t]

TrialWritesOwnStep ==
  /\ (pc = "month" /\ pc' = "month") =>
       /\ OtherRowsKept(mrrPaths, mrrPaths', trial + 1)
       /\ OtherRowsKept(valuationPaths, valuationPaths', trial + 1)
       /\ OtherRowsKept(treasuryPaths, treasuryPaths', trial + 1)
       /\ OtherRowsKept(liquidCashPaths, liquidCashPaths', trial + 1)
       /\ listVars' = listVars
  /\ (pc = "month" /\ pc' = "trialInit") =>
       /\ OtherRowsKept(mrrPaths, mrrPaths', trial + 1)
       /\ OtherRowsKept(valuationPaths, valuationPaths', trial + 1)
       /\ OtherRowsKept(treasuryPaths, treasuryPaths', trial + 1)
       /\ OtherRowsKept(liquidCashPaths, liquidCashPaths', trial + 1)
       /\ Len(immediateProceeds) = trial
       /\ OwnEntryAppended(immediateProceeds, immediateProceeds')
       /\ OwnEntryAppended(escrowProceeds, escrowProceeds')
       /\ OwnEntryAppended(earnOutProceeds, earnOutProceeds')
       /\ OwnEntryAppended(lockupProceeds, lockupProceeds')
       /\ OwnEntryAppended(totalProceeds, totalProceeds')
  /\ (pc = "trialInit" /\ pc' = "month") =>
       /\ pathVars' = pathVars /\ listVars' = listVars
       /\ rng'.trial = trial /\ rng'.draws = <<>>

TrialIndependent == [](TrialDetermined) /\ [][TrialWritesOwnStep]_vars

\* the second of two trials has ended after an exit with a deferred amount,
\* and its draws differ from what the first trial recorded
TrialIndependentWitness ==
  /\ pc = "trialInit" /\ trial = 2
  /\ params.months >= 2 /\ params.exitMonth \in 1..params.months
  /\ Len(CountedItems(params, rng.draws)) > 0
  /\ mrrPaths[1] # mrrPaths[2]
  /\ totalProceeds[1] # totalProceeds[2]

\* C17: a deferred amount (escrow, earn-out, lock-up) is added to cash received
\* in the month numbered exitMonth - 1 + delay (months numbered from 1),
\* whenever that month lies within the horizon, and in no earlier month.
DelayOf(type) ==
  IF type = "escrow" THEN params.escrowMonths
  ELSE IF type = "earnOut" THEN params.earnOutMonths
  ELSE params.ipoLockupMonths

\* the months of the current trial that have been processed
MonthsDone == IF pc = "month" THEN month ELSE params.months

\* the month (numbered from 1) in which the item was applied, 0 when it was not
RECURSIVE AppliedInMonth(_, _)
AppliedInMonth(log, item) ==
  IF Len(log) = 0 THEN 0
  ELSE IF Head(log).item = item THEN Head(log).at + 1
  ELSE AppliedInMonth(Tail(log), item)

ExitInvokedOnce ==
  (HistoryRow >= 1 /\ params.exitMonth \in 1..params.months) =>
    LET e == params.exitMonth
        row == HistoryRow
    IN /\ MonthsDone < e => saleCalls = <<>>
       /\ MonthsDone >= e =>
            /\ Len(saleCalls) = 1
            /\ saleCalls[1].month = e
            /\ saleCalls[1].currentMrr = mrrPaths[row][e]
            /\ saleCalls[1].valuation = valuationPaths[row][e]
            /\ liquidCashPaths[row][e] =
                 treasuryPaths[row][e] + ReturnedImmediate
                 + (IF pc # "month" /\ e = params.months THEN SumAmounts(Beyond) ELSE 0)
       /\ \A m \in 1..Min(MonthsDone, e - 1) :
            liquidCashPaths[row][m] = treasuryPaths[row][m]

\* a trial of three months that exited in month 2 has ended
ExitInvokedOnceWitness ==
  /\ pc = "trialInit" /\ trial >= 1
  /\ params.months = 3 /\ params.exitMonth = 2
  /\ Len(saleCalls) = 1
  /\ ReturnedImmediate > 0
  /\ liquidCashPaths[trial][1] = treasuryPaths[trial][1]
  /\ liquidCashPaths[trial][2] > treasuryPaths[trial][2]

\* C19: at the exit month the proceeds calculator receives as trailing MRR the
\* MRR the same trial recorded at month exitMonth - 12, and initialMrr exactly
\* when there is no such month (exitMonth <= 12); it reads no other trial's
\* path and no month that is not recorded yet.
TrailingMrrGiven ==
  (HistoryRow >= 1 /\ saleCalls # <<>>) =>
    LET e == params.exitMonth
        row == HistoryRow
    IN /\ e > TrailingMonths =>
            /\ saleCalls[1].yearAgoMrr = mrrPaths[row][e - TrailingMonths]
            /\ saleCalls[1].yearAgoMrr = MrrAfter(params, rng.draws, e - TrailingMonths)
       /\ e <= TrailingMonths => saleCalls[1].yearAgoMrr = params.initialMrr

\* the second trial exited after the trailing year, and the month it read
\* differs from the first trial's and from the initial MRR
TrailingMrrWitness ==
  /\ HistoryRow = 2 /\ saleCalls # <<>>
  /\ params.exitMonth > TrailingMonths
  /\ mrrPaths[2][params.exitMonth - TrailingMonths]
       # mrrPaths[1][params.exitMonth - TrailingMonths]
  /\ saleCalls[1].yearAgoMrr # params.initialMrr
  /\ saleCalls[1].yearAgoMrr = mrrPaths[2][params.exitMonth - TrailingMonths]

\* the months of row t that the run has written so far
RecordedMonths(t) ==
  IF t < HistoryRow THEN params.months
  ELSE IF t = HistoryRow THEN MonthsDone ELSE 0

\* C20: within every trial (arpu, grossMargin, profitTakeRate >= 0, deal
\* rates in [0,1]) the recorded treasury and the recorded liquidCash never
\* decrease from one month to the next, and liquidCash strictly increases in
\* every month in which MRR * grossMargin * profitTakeRate > 0, whether or not
\* an exit occurs in range.
CashNeverDecreases ==
  \A t \in 1..HistoryRow : \A m \in 2..RecordedMonths(t) :
    /\ treasuryPaths[t][m] >= treasuryPaths[t][m - 1]
    /\ liquidCashPaths[t][m] >= liquidCashPaths[t][m - 1]
    /\ mrrPaths[t][m] * params.grossMargin * params.profitTakeRate > 0
         => liquidCashPaths[t][m] > liquidCashPaths[t][m - 1]

\* a trial that exited in range, whose MRR then fell, and whose treasury and
\* liquidCash still rose in that month
CashNeverDecreasesWitness ==
  /\ HistoryRow >= 1 /\ saleCalls # <<>>
  /\ params.profitTakeRate > 0
  /\ \E m \in 2..RecordedMonths(HistoryRow) :
       /\ m > params.exitMonth
       /\ mrrPaths[HistoryRow][m] < mrrPaths[HistoryRow][m - 1]
       /\ mrrPaths[HistoryRow][m] > 0
       /\ treasuryPaths[HistoryRow][m] > treasuryPaths[HistoryRow][m - 1]
       /\ liquidCashPaths[HistoryRow][m] > liquidCashPaths[HistoryRow][m - 1]

\* a step of the worker's listener: the oldest message leaves the inbox
WorkerStep == Len(toWorker) > 0 /\ toWorker' = Tail(toWorker)

\* C21: the worker answers every message of type 'run' with exactly one
\* response carrying that request's requestId and the result computed from
\* its payload, in the order the requests were received, and posts nothing
\* for a message of any other type.
WorkerAnswersEveryRunStep ==
  WorkerStep =>
    LET data == Head(toWorker)
    IN IF data.type = "run"
       THEN toApp' = Append(toApp, [requestId |-> data.requestId,
                                    result |-> ResultOf(data.payload)])
       ELSE toApp' = toApp

WorkerAnswersEveryRun == [][WorkerAnswersEveryRunStep]_vars

\* C22: at the end of every trial (deal rates in [0,1]) the final month's
\* recorded liquidCash minus the final month's recorded treasury equals the
\* trial's recorded total proceeds (immediate + escrow + earn-out + lock-up,
\* amounts due beyond the horizon included).
FinalCashIsTotalProceeds ==
  params.months >= 1 =>
    \A t \in 1..Len(totalProceeds) :
      /\ liquidCashPaths[t][params.months] - treasuryPaths[t][params.months]
           = totalProceeds[t]
      /\ totalProceeds[t] = immediateProceeds[t] + escrowProceeds[t]
                             + earnOutProceeds[t] + lockupProceeds[t]

\* a finished trial with an immediate amount, an escrow paid within the
\* horizon and an earn-out due beyond it
FinalCashWitness ==
  /\ TrialRecorded /\ params.months >= 1
  /\ immediateProceeds[trial] > 0
  /\ escrowTotal > 0 /\ futureEscrow = 0
  /\ futureEarnOut > 0
  /\ totalProceeds[trial] = immediate + escrowTotal + futureEarnOut
  /\ liquidCashPaths[trial][params.months] - treasuryPaths[trial][params.months]
       = totalProceeds[trial]

\* the net amount after costs and the base earn-out of the sale of this trial
NetAfterCosts(valuation, p) ==
  Max(0, Scale(valuation, Den - p.transactionCostRate)
         - Scale(valuation, p.workingCapitalRate))

BaseEarnOut(valuation, p) == Scale(NetAfterCosts(valuation, p), p.earnOutRate)

MaSaleReturned == params.exitStrategy = "ma" /\ saleCalls # <<>> /\ saleResult # <<>>

MaSum == ReturnedImmediate + ReturnedOf("escrow") + ReturnedOf("earnOut")

\* growth <= earnOutGrowthTarget, or no target: the multiplier is at most 1
GrowthWithinTarget(call, p) ==
  LET gd == GrowthDenominator(call.yearAgoMrr, call.currentMrr)
  IN p.earnOutGrowthTarget <= 0
     \/ (call.currentMrr - gd) * Den <= gd * p.earnOutGrowthTarget

\* C23 as stated: for an M&A exit (rates in [0,1], escrowRate + earnOutRate
\* <= 1) immediate + escrow + earn-out payout never exceeds the net amount
\* after costs, and so never exceeds the valuation at exit.
MaSumWithinNet ==
  MaSaleReturned =>
    /\ MaSum <= NetAfterCosts(saleCalls[1].valuation, params)
    /\ MaSum <= saleCalls[1].valuation

\* C23 (amended): for an M&A exit (rates in [0,1], escrowRate + earnOutRate
\* <= 1) immediate + escrow + earn-out payout never exceeds the net amount
\* after costs plus a quarter of the base earn-out; it never exceeds the net
\* amount when growth is at most the target (or there is no target), and the
\* net amount never exceeds a non-negative valuation.
MaSumWithinNetAndBonus ==
  MaSaleReturned =>
    LET call == saleCalls[1]
        net == NetAfterCosts(call.valuation, params)
    IN /\ MaSum <= net + Scale(BaseEarnOut(call.valuation, params), EarnOutCap - Den)
       /\ GrowthWithinTarget(call, params) => MaSum <= net
       /\ call.valuation >= 0 => net <= call.valuation

\* a sale whose growth is beyond 1.25 times the target: the payout is 1.25
\* times the base earn-out and the sum is above the net amount
MaSumWitness ==
  /\ MaSaleReturned
  /\ params.earnOutRate > 0 /\ params.earnOutGrowthTarget > 0
  /\ ReturnedOf("earnOut")
       = Scale(BaseEarnOut(saleCalls[1].valuation, params), EarnOutCap)
  /\ MaSum > NetAfterCosts(saleCalls[1].valuation, params)
  /\ MaSum = NetAfterCosts(saleCalls[1].valuation, params)
             + Scale(BaseEarnOut(saleCalls[1].valuation, params), EarnOutCap - Den)

\* C24: after any run request is issued (one issued after an import included)
\* the UI eventually leaves the running state: the worker eventually posts a
\* response for the latest request and isRunning becomes false, so the Run
\* Simulation button becomes usable again.
RunEventuallyEnds == isRunning ~> ~isRunning

\* C25: starting from the default parameters, after any sequence of
\* updateParameters calls with numeric values (slider edits, presets, imports,
\* in any order) the form parameters satisfy 0 <= exitMonth <= months.
ExitMonthWithinHorizon ==
  /\ 0 <= Shown.exitMonth
  /\ Shown.exitMonth <= Shown.months

IsAscending(list) == \A i \in 1..(Len(list) - 1) : list[i] <= list[i + 1]

MilestonesSortedState ==
  /\ IsAscending(formParameters.milestoneTargets)
  /\ IsAscending(parameters.milestoneTargets)
  /\ \A i \in 1..Len(toWorker) : IsAscending(toWorker[i].payload.milestoneTargets)

\* a one-element list is never shortened, and the call of removeMilestone
\* that returns early changes nothing
RemoveFromSingletonStep ==
  /\ Len(Shown.milestoneTargets) = 1 => Len(Shown'.milestoneTargets) >= 1
  /\ removeIgnored' # removeIgnored =>
       /\ Len(Shown.milestoneTargets) = 1
       /\ UNCHANGED <<formParameters, parameters, activePreset, hasPendingChanges,
                      result, isRunning, requestIdRef, toWorker, toApp, posted>>

\* C26: in every reachable UI state the milestone targets of the form
\* parameters, and so of every payload posted to the worker, are in ascending
\* order: adding, editing, removing or importing milestones leaves the list
\* sorted, and removing a milestone from a one-element list is a no-op.
MilestonesAlwaysSorted == [](MilestonesSortedState) /\ [][RemoveFromSingletonStep]_vars

\* an import of an unsorted list and a removal have left one milestone, a
\* removal on that list has been ignored, and the form still shows it
MilestonesSortedWitness ==
  /\ \E i \in 1..Len(importLog) :
       /\ "milestoneTargets" \in DOMAIN importLog[i].text
       /\ ~IsAscending(JsonParse(importLog[i].text).milestoneTargets)
  /\ Len(Shown.milestoneTargets) = 1
  /\ removeIgnored

\* a step in which handleImport reads its first file that is not JSON
MalformedImportStep == ~malformedRead /\ malformedRead'

MalformedImportIgnoredStep ==
  MalformedImportStep =>
    /\ errorReported'
    /\ UNCHANGED <<formParameters, parameters, activePreset, hasPendingChanges, result>>
    /\ UNCHANGED <<toWorker, posted, requestIdRef, isRunning>>

\* C27: importing a settings file whose content is not valid JSON is reported
\* as an error and changes nothing: form parameters, submitted parameters,
\* active preset, pending-changes flag and displayed result are unchanged and
\* no request is posted to the worker.
MalformedImportIgnored ==
  [](malformedRead => errorReported) /\ [][MalformedImportIgnoredStep]_vars

\* a file that is not JSON was read while the form held edited parameters, a
\* preset was active and a result was displayed, and all of it is still there
MalformedImportWitness ==
  /\ malformedRead /\ errorReported
  /\ formParameters # DEFAULT_PARAMETERS
  /\ activePreset # NoPreset
  /\ result # <<>>
  /\ hasPendingChanges

\* sampleBeta terminates under a fair random stream
BetaTerminates == <>(betaPc = "done")

\* the shape < 1 case recurses at most once per gamma draw, and no loop
\* returns a candidate with v <= 0
BetaReturnsPositiveV ==
  /\ Len(gScales) <= 1
  /\ \A i \in 1..Len(returnedV) : returnedV[i].num > 0 /\ returnedV[i].den > 0

\* a value in [0, 1] (0/0 is NaN)
InUnitInterval(q) == q.den > 0 /\ 0 <= q.num /\ q.num <= q.den

BetaResultInUnit == betaOut # <<>> => InUnitInterval(betaOut[1])

\* C28: for every alpha > 0 and beta > 0, sampleBeta terminates under a fair
\* random stream (the rejection loop eventually accepts, and the shape < 1
\* case recurses at most once per gamma draw), it never returns a candidate
\* with v <= 0, and its result lies in [0, 1].
SampleBetaTerminatesInUnit ==
  BetaTerminates /\ [](BetaReturnsPositiveV) /\ [](BetaResultInUnit)

\* p10 <= median <= p90
Ordered(stat) == stat.p10 <= stat.median /\ stat.median <= stat.p90

\* `months` points numbered 1..months in order, each with ordered percentiles
SeriesWellFormed(series, months) ==
  /\ Len(series) = months
  /\ \A i \in 1..Len(series) : series[i].month = i /\ Ordered(series[i])

\* C29: every point of the MRR, ARR, valuation, treasury and liquidCash series
\* and every ProceedsStat of the sale summary satisfies p10 <= median <= p90,
\* and each series has exactly `months` points numbered 1..months in order.
PercentilesOrdered ==
  simResult # <<>> =>
    LET r == simResult[1]
    IN /\ SeriesWellFormed(r.mrr, params.months)
       /\ SeriesWellFormed(r.arr, params.months)
       /\ SeriesWellFormed(r.valuation, params.months)
       /\ SeriesWellFormed(r.treasury, params.months)
       /\ SeriesWellFormed(r.liquidCash, params.months)
       /\ Ordered(r.saleSummary.immediate) /\ Ordered(r.saleSummary.escrow)
       /\ Ordered(r.saleSummary.earnOut) /\ Ordered(r.saleSummary.postLockup)
       /\ Ordered(r.saleSummary.total)

\* a result over trials that differ: the last MRR point and the total
\* proceeds have p10 < median < p90, and the later trial has the lower MRR
PercentilesOrderedWitness ==
  /\ simResult # <<>> /\ params.months >= 2 /\ params.trials >= 2
  /\ mrrPaths[1][params.months] > mrrPaths[2][params.months]
  /\ LET r == simResult[1]
     IN /\ r.mrr[params.months].p10 < r.mrr[params.months].median
        /\ r.mrr[params.months].median < r.mrr[params.months].p90
        /\ r.arr[params.months].p10 < r.arr[params.months].p90
        /\ r.saleSummary.total.p10 < r.saleSummary.total.median
        /\ r.saleSummary.total.median < r.saleSummary.total.p90

\* C30: for every min <= max, step and current value, SliderInput calls
\* onChange only with a value inside [min, max], for the range input and the
\* numeric input alike; a non-numeric (NaN) entry yields the current value
\* rather than NaN.
OnChangeWithinRange ==
  \A i \in 1..Len(onChangeCalls) :
    LET call == onChangeCalls[i]
    IN /\ ~call.value.nan
       /\ IF call.entry.nan
          THEN call.value.n = sliderProps.value
          ELSE sliderProps.min <= call.value.n /\ call.value.n <= sliderProps.max

====
